---- MODULE Spec2Model ----
(***************************************************************************)
(* The image gallery viewer, the hero carousel and the page state they     *)
(* share (script.js), as a state machine.  One action per event handler,   *)
(* timer callback, image load outcome and animation frame.                 *)
(*                                                                         *)
(* Indices are 0-based as in the source; TLA+ sequences are 1-based, so    *)
(* images[i] of the source is At(images, i) here.                          *)
(*                                                                         *)
(* Style properties that the source only ever writes and that no handler   *)
(* reads back (will-change, the nav buttons' opacity / pointer-events,     *)
(* body.style.width) carry no state here.                                  *)
(***************************************************************************)
EXTENDS Integers, Sequences, FiniteSets, TLC

\* ---------------------------------------------------------------- bounds
\* Number of .hero-image elements in the hero container.
HeroCount == 3
\* Largest scroll offset the page is scrolled to (window.scrollY in 0..MaxScrollY).
MaxScrollY == 1
\* Largest number of pending 150 ms title timers.
MaxTitleTimers == 2
\* pagehide signals dispatched to the window
MaxPagehides == 3
\* content cards in a section
MaxCards == 2
\* entries in one IntersectionObserver callback
MaxEntries == 2
\* Page events (DOMContentLoaded, image loads, the load event) happen at
\* multiples of Tick ms or when a timer is due; time stops at MaxNow ms.
Tick == 500
MaxNow == 8000
\* milliseconds of host time the timed specification follows
MaxClock == 21100

\* ------------------------------------------------------------ host values
\* window.innerWidth, in the same unit as the touch positions.
InnerWidth == 20
\* setInterval(..., 7000): the rotation period in ms
Period == 7000
\* setTimeout(..., 600): the transition duration in ms
TransitionDelay == 600
\* A requested animation frame runs within this many ms (the page is visible
\* and repaints at 60 Hz).
FrameMs == 16
\* clientX values a touch event can carry.
TouchXs == {1, 4, 8}
\* Keys a keydown event can carry.
Keys == {"ArrowLeft", "ArrowRight", "Escape", "Enter"}

\* Math.abs
Abs(x) == IF x < 0 THEN -x ELSE x

\* The % operator of the source: the result has the sign of the dividend.
JsMod(a, b) == IF a >= 0 THEN a % b ELSE -((-a) % b)

\* Math.abs(diffX) > window.innerWidth * 0.15
OverThreshold(diffX) == Abs(diffX) * 100 > InnerWidth * 15

\* ------------------------------------------------------------- characters
Lower == <<"a","b","c","d","e","f","g","h","i","j","k","l","m",
           "n","o","p","q","r","s","t","u","v","w","x","y","z">>
Upper == <<"A","B","C","D","E","F","G","H","I","J","K","L","M",
           "N","O","P","Q","R","S","T","U","V","W","X","Y","Z">>

\* c.toUpperCase() of one character.
ToUpperCase(c) ==
    IF \E k \in 1..26 : Lower[k] = c
    THEN Upper[CHOOSE k \in 1..26 : Lower[k] = c]
    ELSE c

\* Does /\w/ match the character?
IsWordChar(c) ==
    \/ \E k \in 1..26 : Lower[k] = c \/ Upper[k] = c
    \/ c \in {"0","1","2","3","4","5","6","7","8","9","_"}

\* A sequence of characters as one string.
RECURSIVE Join(_)
Join(cs) == IF cs = <<>> THEN "" ELSE Head(cs) \o Join(Tail(cs))

\* s.split(sep)[0]: the characters before the first sep.
RECURSIVE FirstPiece(_, _)
FirstPiece(cs, sep) ==
    IF cs = <<>> \/ Head(cs) = sep THEN <<>>
    ELSE <<Head(cs)>> \o FirstPiece(Tail(cs), sep)

\* s.split(sep).pop(): the characters after the last sep.
RECURSIVE LastPiece(_, _)
LastPiece(cs, sep) ==
    IF \E k \in 1..Len(cs) : cs[k] = sep
    THEN LastPiece(SubSeq(cs, 1 + CHOOSE k \in 1..Len(cs) :
                                  cs[k] = sep /\ \A j \in 1..(k-1) : cs[j] # sep,
                          Len(cs)), sep)
    ELSE cs

\* s.replace(/^\w/, c => c.toUpperCase())
CapitalizeFirst(cs) ==
    IF cs # <<>> /\ IsWordChar(Head(cs))
    THEN <<ToUpperCase(Head(cs))>> \o Tail(cs)
    ELSE cs

\* displayName.split('.')[0].split('_').pop().replace(/^\w/, c => c.toUpperCase())
LabelOf(displayName) ==
    Join(CapitalizeFirst(LastPiece(FirstPiece(displayName, "."), "_")))

\* ------------------------------------------------------------ the resolver
\* multiImageMap: card title -> display names.  A display name is given
\* character by character, so that split and replace are computed on it.
multiImageMap ==
       ("Aerial Screw" :> <<
          <<"a","i","r","_","s","c","r","e","w","_","p","r","o","t","o","t","y","p","e",".","j","p","g">>,
          <<"a","i","r","_","s","c","r","e","w","_","s","k","e","t","c","h",".","j","p","g">>>>)
    @@ ("Armored Tank" :> <<
          <<"a","m","o","r","e","d","_","t","a","n","k","_","d","e","s","i","g","n",".","J","P","G">>,
          <<"a","m","o","r","e","d","_","t","a","n","k","_","b","l","u","e","p","r","i","n","t",".","j","p","g">>>>)
    @@ ("Hydraulic Systems" :> <<
          <<"h","y","d","r","a","u","l","i","c","_","s","y","s","t","e","m","s","_","d","i","a","g","r","a","m",".","j","p","g">>,
          <<"h","y","d","r","a","u","l","i","c","_","s","y","s","t","e","m","s","_","s","c","h","e","m","a","t","i","c",".","p","n","g">>>>)
    @@ ("Multi-Level Bridge" :> <<
          <<"m","u","l","t","i","-","l","e","v","e","l","_","b","r","i","d","g","e","_","d","e","s","i","g","n",".","j","p","g">>,
          <<"m","u","l","t","i","-","l","e","v","e","l","_","b","r","i","d","g","e","_","c","o","n","c","e","p","t",".","j","p","g">>>>)

\* fileMap of show(): display name -> file name.
fileMap ==
       ("air_screw_prototype.jpg" :> "air_screw_1.jpg")
    @@ ("air_screw_sketch.jpg" :> "air_screw_2.jpg")
    @@ ("amored_tank_design.JPG" :> "amored_tank_1.JPG")
    @@ ("amored_tank_blueprint.jpg" :> "amored_tank_2.jpg")
    @@ ("hydraulic_systems_diagram.jpg" :> "hydraulic_systems_1.jpg")
    @@ ("hydraulic_systems_schematic.png" :> "hydraulic_systems_2.png")
    @@ ("multi-level_bridge_design.jpg" :> "multi-level_bridge_1.jpg")
    @@ ("multi-level_bridge_concept.jpg" :> "multi-level_bridge_2.jpg")

\* Has the object a property of this name (is obj[key] truthy)?
Has(obj, key) == key \in DOMAIN obj

\* The page's content cards, in document order: the trimmed text of .card-title
\* and .card-text and the data-image attribute.  One single-image art card, one
\* multi-image and one single-image invention card.
Sections == {"art", "inventions"}
PageCards ==
    [section \in Sections |->
        IF section = "art"
        THEN << [title |-> "Mona Lisa", desc |-> "Portrait", image |-> "mona_lisa"] >>
        ELSE << [title |-> "Aerial Screw", desc |-> "Helicopter", image |-> "air_screw"],
                [title |-> "Parachute Design", desc |-> "Canopy", image |-> "parachute"] >>]

\* Card titles a page can carry: the titles the script knows (keys of its
\* link and image maps) and the empty title of a card without .card-title.
CardTitles == {"", "Mona Lisa", "Aerial Screw", "Armored Tank", "Hydraulic Systems",
               "Multi-Level Bridge", "Parachute Design"}

\* A page's cards of one section: up to MaxCards cards, each with one of the
\* titles and its own description and data-image.
CardLists ==
    UNION {[1..m -> CardTitles] : m \in 0..MaxCards}
CardsOf(titles) ==
    [j \in 1..Len(titles) |->
        [title |-> titles[j], desc |-> "Text " \o ToString(j),
         image |-> "image_" \o ToString(j)]]

\* The flatMap callback giving every record of a card the card's bare title.
CardImages_NoLabel(section, card) ==
    IF section = "inventions" /\ Has(multiImageMap, card.title)
    THEN [k \in 1..Len(multiImageMap[card.title]) |->
            [src   |-> "./images/cards/inventions/"
                          \o fileMap[Join(multiImageMap[card.title][k])],
             title |-> card.title,
             desc  |-> card.desc]]
    ELSE << [src   |-> "./images/cards/" \o section \o "/" \o card.image \o ".jpg",
             title |-> card.title,
             desc  |-> card.desc] >>

\* The records one card expands to (the callback of cards.flatMap in show()).
CardImages(section, card) ==
    IF section = "inventions" /\ Has(multiImageMap, card.title)
    THEN [k \in 1..Len(multiImageMap[card.title]) |->
            [src   |-> "./images/cards/inventions/"
                          \o fileMap[Join(multiImageMap[card.title][k])],
             title |-> card.title \o " - " \o LabelOf(multiImageMap[card.title][k]),
             desc  |-> card.desc]]
    ELSE << [src   |-> "./images/cards/" \o section \o "/" \o card.image \o ".jpg",
             title |-> card.title,
             desc  |-> card.desc] >>

\* cards.flatMap(...) over the first k cards of the section.
RECURSIVE FlatMapCards(_, _, _)
FlatMapCards(section, cards, k) ==
    IF k = 0 THEN <<>>
    ELSE FlatMapCards(section, cards, k - 1) \o CardImages(section, cards[k])

\* The sections sectionObserver observes.
SectionIds == {"hero", "biography", "inventions", "art", "legacy"}

\* intersectionRatio values, in percent.
Ratios == {0, 49, 50, 100}

\* The entries an IntersectionObserver can report for a section: not
\* intersecting (ratio 0), or intersecting with some ratio.
ObserverEntries ==
    [id : SectionIds, isIntersecting : {TRUE}, ratio : Ratios]
        \cup [id : SectionIds, isIntersecting : {FALSE}, ratio : {0}]

\* href attributes of .nav-link elements, character by character; the empty
\* sequence stands for a missing or empty attribute (both falsy).
NavHrefs == { <<"#","a","r","t">>, <<"#","l","e","g","a","c","y">>, <<"#">>,
              <<"a","r","t">>, <<>> }

\* The value getItem returns for a key never set.
NoItem == "null"

\* data-theme values of the .theme-option buttons; data-lang values of the
\* .lang-option buttons (keys of translations).
Themes == {"light", "dark"}
Langs == {"en", "es", "fr", "de"}

\* An observer entry that counts for the scroll memory: intersecting, at
\* least half visible, its target has an id.
QualifyingEntry(entry) ==
    entry.isIntersecting /\ entry.ratio >= 50 /\ entry.id # ""

\* The callbacks the script registers with registerCleanup: each removes one
\* listener (scroll on window, click on the hamburger, resize on window).
CleanupCallbacks == {"scroll", "hamburger", "resize"}

\* images[i] of the source; Undefined when i is no index of the list.
Undefined == [src |-> "undefined", title |-> "undefined"]
At(list, i) == IF i \in 0..(Len(list) - 1) THEN list[i + 1] ELSE Undefined

\* ------------------------------------------------------------------ state
VARIABLES
    \* ImageGalleryViewer fields
    images, currentIndex, isOpen, touchStartX, touchEndX, isDragging, scrollY,
    \* .gallery-viewer has class 'active'
    elementActive,
    \* .gallery-title: textContent, style.opacity, style.color
    titleText, titleOpacity, titleColor,
    \* .gallery-image: src, style.opacity, style.transform, style.transition
    imgSrc, imgOpacity, imgTransform, imgTransition,
    \* the image element has a load in flight (its onload / onerror belong to
    \* the render that set src last)
    loadPending,
    \* titles captured by the pending 150 ms timers, oldest first
    titleTimers,
    \* document.body is position:fixed / overflow:hidden; its style.top offset
    bodyFixed, bodyTop,
    \* window.scrollY
    winScrollY,
    \* callbacks requested with requestAnimationFrame and not yet run
    rafCallbacks,
    \* document.querySelectorAll('.hero-image').length
    heroLength,
    \* initImageCarousel closure: currentIndex, isTransitioning, isDragging, startX
    carouselIndex, isTransitioning, carouselDragging, startX,
    \* hero images with class 'active'; style.zIndex of each hero image
    heroActive, heroZ,
    \* how many interval timers are live, and whether intervalId names a live one
    liveIntervals, intervalIdLive,
    \* pending 600 ms transition timers
    transitionTimers,
    \* the host: a finger is down on the gallery image area, on the hero
    \* container; the pointer is over the hero container
    galleryTouch, heroTouch, hovering,
    \* a promise rejection or exception has left a handler uncaught
    unhandled,
    \* the cleanupFunctions set; how often each callback has been invoked;
    \* the { once: true } pagehide listener is still installed; pagehide
    \* events dispatched so far
    cleanupFunctions, invoked, pagehideListener, pagehides,
    \* the content cards of each section, as the page's markup has them
    pageCards,
    \* every access to localStorage throws; localStorage's items; the
    \* data-theme attribute of the root element; currentLang; the observed
    \* sections carrying class 'fade-in-up'
    storageThrows, stored, themeAttr, currentLang, fadedIn,
    \* startup: Date.now(); the pending setTimeout callbacks in the order they
    \* were set, each with its due time; the page has the loader element;
    \* DOMContentLoaded and load have been dispatched; hero images not yet
    \* complete
    now, timers, hasLoader, domReady, windowLoaded, heroLoading,
    \* contentLoadTime, loadedImages and loadStartTime of the two handlers;
    \* the loader has class 'hidden', has been removed; the hamburger has
    \* been made visible; calls of startAnimationsSequence and of
    \* startPageAnimations so far; the element scrollIntoView was called on
    contentLoadTime, loadedImages, loadStartTime, loaderHidden, loaderRemoved,
    hamburgerVisible, sequenceRuns, animationsStarted, scrolledTo,
    \* history: what is recorded, and the record
    probe, hist

galleryVars == <<images, currentIndex, isOpen, touchStartX, touchEndX, isDragging,
                 scrollY, elementActive>>
titleVars == <<titleText, titleOpacity, titleColor>>
imageVars == <<imgSrc, imgOpacity, imgTransform, imgTransition>>
renderVars == <<titleText, titleOpacity, titleColor, imgSrc, imgOpacity,
                imgTransform, imgTransition, loadPending, titleTimers>>
pageVars == <<bodyFixed, bodyTop, winScrollY>>
carouselVars == <<heroLength, carouselIndex, isTransitioning, carouselDragging, startX,
                  heroActive, heroZ, liveIntervals, intervalIdLive, transitionTimers>>
hostVars == <<galleryTouch, heroTouch, hovering, unhandled>>
cleanupVars == <<cleanupFunctions, invoked, pagehideListener, pagehides>>
\* Module-level state outside the gallery viewer and the carousel.
settingsVars == <<storageThrows, stored, themeAttr, currentLang, fadedIn>>
\* The loader and the startup timers.
startupVars == <<now, timers, hasLoader, domReady, windowLoaded, heroLoading,
                 contentLoadTime, loadedImages, loadStartTime, loaderHidden,
                 loaderRemoved, hamburgerVisible, sequenceRuns, animationsStarted,
                 scrolledTo>>
\* Module-level state other than the cleanup registry.
nonCleanupVars == <<pageCards, settingsVars, startupVars>>
moduleVars == <<cleanupVars, nonCleanupVars>>
vars == <<galleryVars, renderVars, pageVars, rafCallbacks, carouselVars, hostVars,
          moduleVars,
          probe, hist>>

\* document.querySelectorAll(`#${section} .content-card`)
SectionCards(section) == pageCards[section]

\* The image list show() builds for a section.
ResolveSection(section) ==
    FlatMapCards(section, SectionCards(section), Len(SectionCards(section)))

\* The reduce of the card click handler counting one image for every card.
CountBefore_OnePerCard(section, k) == k

\* The reduce of the card click handler: the number of images counted for the
\* first k cards of the section.
RECURSIVE CountBefore(_, _)
CountBefore(section, k) ==
    IF k = 0 THEN 0
    ELSE CountBefore(section, k - 1)
         + (IF section = "inventions" /\ Has(multiImageMap, SectionCards(section)[k].title)
            THEN Len(multiImageMap[SectionCards(section)[k].title])
            ELSE 1)

\* getImagesFromContainer(heroContainer): one record per hero image.
heroImages ==
    [k \in 1..heroLength |->
        [src |-> "./images/hero/" \o ToString(k) \o ".jpg",
         title |-> "Hero " \o ToString(k)]]

\* initImageCarousel() without its early return.
CarouselInstalled_Always == TRUE

\* initImageCarousel() returns before it installs anything when there are
\* fewer than two hero images.
CarouselInstalled == heroLength > 1

\* The initial style values of the transforms the source assigns.
Centered == "translateX(0) scale(1)"
FromLeft == "translateX(-50px) scale(0.95)"
FromRight == "translateX(50px) scale(0.95)"
ErrorLabel == "Error loading image"

touchVars == <<touchStartX, touchEndX, isDragging>>
coreVars == <<images, currentIndex, isOpen, scrollY, elementActive>>
\* What show(), next(), prev() and close() can write.
methodVars == <<coreVars, renderVars, pageVars, rafCallbacks>>

\* The callbacks handed to requestAnimationFrame: close()'s restore of the
\* body, updateImage()'s slide-in, updateCarousel()'s activation of image i.
RestoreScroll == [cb |-> "restore", img |-> -1]
SlideIn == [cb |-> "slide", img |-> -1]
Activate(i) == [cb |-> "activate", img |-> i]

\* ---------------------------------------------------------------- history
\* The history variable hist records, for the behaviour being examined (probe),
\* what the program state alone no longer tells.  The program never reads it.
\*   "none"   nothing
\*   "op"     the input handler that ran last, its argument and the method it
\*            called ("host" after a timer, a load outcome or a frame)
\*   "cycle"  the index show() opened at and the next() calls made since
\*   "pair"   a next()/prev() call and the opposite call right after it (no
\*            other input between them), with the index before the pair
\*   "touch"  the gesture on the gallery: where it started and where the
\*            finger is, whether the gallery stayed Open during it, and at its
\*            end its displacement and the index before
\*   "scroll" the page offset when background scrolling was last suppressed
\*   "load"   whether the last render's load has failed
\*   "clock"  the host's clock in ms, when the interval timer is due next,
\*            the deadlines of the requested frame and of the 600 ms timer
\*            (-1: none pending), and the ticks fired so far; the guards
\*            of the timed specification read these times
\*   "track"  the section id of the most recent qualifying event of the
\*            scroll memory (a nav link click with a '#' href, an observer
\*            entry intersecting with ratio >= 50% and an id)
\*   "click"  the element of the gallery viewer clicked last, if the click was
\*            the last event, and whether the click reached the viewer's own
\*            click listener
\*   "pending" the method the last handler called, if a handler was the last
\*            event, and whether an image load was pending and the gallery
\*            open when it ran
\*   "closed" how far the load has come that was pending when close() ran
\*            (closed: still pending, loaded: completed, framed: its frame
\*            callback ran), and whether the gallery was reopened before the
\*            load completed; "none" once another render or a failure
\*            intervened
\*   "gesture" for the touch gesture on the hero container that began last:
\*            whether the finger is still down, how many of its touchmove
\*            events changed the carousel's index, and whether each change
\*            was a single step
\*   "converge" whether a load has failed so far, and whether a render was
\*            started while an earlier one was still in flight
\*   "promise" the invocations of show(), next() and prev() that have not
\*            completed: live, the one awaiting the loadImage() promise whose
\*            handlers are on the image element; orphaned, some invocation
\*            whose handlers a later loadImage() replaced while its load was
\*            pending
\*   "dom"    the time at which DOMContentLoaded was dispatched
\*   "setting" the settings or scroll-memory handler that ran last and, for
\*            a theme or language button, the value it carries
\*   "step"   the handler or callback that ran last, for a touchmove on the
\*            hero container its displacement from startX, and the number
\*            of live interval timers before it ran
\*   "cleanup" the callbacks registered before the first pagehide, and the
\*            callbacks the last pagehide invoked
\*   "fail"   whether a load has failed with no user input since, and the
\*            index at the failure
\*   "area"   the image area before the render in flight started, and after
\*            a failure whether no other render has started since
\* The elements of the gallery viewer a click can hit, and for each the
\* elements the click event passes on its way up, the target first:
\* the .gallery-viewer backdrop, .gallery-content, the three buttons, the
\* title, the image container and the image.
ClickTargets == {"viewer", "content", "close", "prev", "next", "title", "container",
                 "image"}
Path(target) ==
    CASE target = "viewer"  -> <<"viewer">>
      [] target = "content" -> <<"content", "viewer">>
      [] target = "image"   -> <<"image", "container", "content", "viewer">>
      [] OTHER              -> <<target, "content", "viewer">>

\* No click listener calls e.stopPropagation().
ListenerStops_None(el) == FALSE

\* The click listener of element el calls e.stopPropagation().
ListenerStops(el) == el \in {"prev", "next", "container"}

\* The click on target reaches the listeners of the k-th element of its path.
Reaches(target, k) == \A j \in 1..(k - 1) : ~ListenerStops(Path(target)[j])

\* The click on target reaches the click listener of the .gallery-viewer.
ViewerReached(target) == Reaches(target, Len(Path(target)))

HostOps == {"titleTimer", "loadSucceeds", "loadFails", "frame", "tick",
            "transitionTimer"}

HistInit(p) ==
    CASE p = "op"     -> [op |-> "init", arg |-> 0, call |-> "none"]
      [] p = "cycle"  -> [on |-> FALSE, start |-> 0, k |-> 0]
      [] p = "pair"   -> [stage |-> 0, first |-> "none", from |-> 0]
      [] p = "touch"  -> [phase |-> "idle", steady |-> FALSE, start |-> 0, last |-> 0,
                          dx |-> 0, pre |-> 0]
      [] p = "scroll" -> [offset |-> 0]
      [] p = "load"   -> [failed |-> FALSE]
      [] p = "fail"   -> [quiet |-> FALSE, idx |-> 0]
      [] p = "clock"  -> [now |-> 0, tickAt |-> Period, frameBy |-> -1, timerAt |-> -1,
                          ticks |-> 0]
      [] p = "track"  -> [id |-> NoItem]
      [] p = "promise" -> [live |-> FALSE, orphaned |-> FALSE]
      [] p = "converge" -> [failed |-> FALSE, overlapped |-> FALSE]
      [] p = "gesture" -> [down |-> FALSE, steps |-> 0, single |-> TRUE]
      [] p = "closed" -> [stage |-> "none", reopened |-> FALSE]
      [] p = "pending" -> [call |-> "none", pending |-> FALSE, open |-> FALSE]
      [] p = "click"  -> [target |-> "none", reached |-> FALSE]
      [] p = "dom"    -> [at |-> -1]
      [] p = "setting" -> [op |-> "init", value |-> ""]
      [] p = "step"   -> [op |-> "init", dx |-> 0, live |-> 0]
      [] p = "cleanup" -> [before |-> {}, ran |-> {}]
      [] p = "area"   -> [failed |-> FALSE, src |-> "", opacity |-> "", transform |-> ""]
      [] OTHER        -> [none |-> TRUE]

\* The record after handler op ran with argument arg and called method call
\* ("none" when it called none).  Reads the state before and after the step.
Observe(op, arg, call) ==
    CASE probe = "op" ->
            IF op \in HostOps
            THEN [op |-> "host", arg |-> 0, call |-> "none"]
            ELSE [op |-> op, arg |-> arg, call |-> call]
      [] probe = "cycle" ->
            IF call = "show"
            THEN [on |-> arg \in 0..(Len(images') - 1), start |-> arg, k |-> 0]
            ELSE IF call = "next" /\ hist.on /\ isOpen /\ hist.k < Len(images)
            THEN [hist EXCEPT !.k = @ + 1]
            ELSE IF call \in {"next", "prev", "close"}
            THEN HistInit("cycle")
            ELSE hist
      [] probe = "pair" ->
            IF call \in {"next", "prev"}
            THEN IF hist.stage = 1 /\ hist.first # call
                 THEN [hist EXCEPT !.stage = 2]
                 ELSE [stage |-> 1, first |-> call, from |-> currentIndex]
            ELSE IF op \in HostOps THEN hist
            ELSE HistInit("pair")
      [] probe = "touch" ->
            IF op = "touchstart"
            THEN [phase |-> "down", steady |-> isOpen, start |-> arg, last |-> arg,
                  dx |-> 0, pre |-> 0]
            ELSE IF op = "touchmove"
            THEN [hist EXCEPT !.last = arg]
            ELSE IF op = "touchend"
            THEN [phase |-> "ended", steady |-> hist.steady /\ isOpen,
                  start |-> 0, last |-> 0,
                  dx |-> hist.last - hist.start, pre |-> currentIndex]
            ELSE IF hist.phase = "down"
            THEN [hist EXCEPT !.steady = @ /\ isOpen']
            ELSE HistInit("touch")
      [] probe = "scroll" ->
            IF ~bodyFixed /\ bodyFixed' THEN [offset |-> winScrollY] ELSE hist
      [] probe = "load" ->
            IF op = "loadFails" THEN [failed |-> TRUE]
            ELSE IF Len(titleTimers') > Len(titleTimers) THEN [failed |-> FALSE]
            ELSE hist
      [] probe = "clock" ->
            IF op = "tick"
            THEN [hist EXCEPT !.tickAt = hist.now + Period, !.ticks = @ + 1,
                              !.frameBy = IF rafCallbacks' # rafCallbacks
                                          THEN hist.now + FrameMs ELSE @]
            ELSE IF op = "frame"
            THEN [hist EXCEPT !.frameBy = -1,
                              !.timerAt = IF transitionTimers' > transitionTimers
                                          THEN hist.now + TransitionDelay ELSE @]
            ELSE IF op = "transitionTimer"
            THEN [hist EXCEPT !.timerAt = -1]
            ELSE hist
      [] probe = "track" ->
            IF op = "navClick" /\ arg # <<>> /\ Head(arg) = "#"
            THEN [id |-> Join(Tail(arg))]
            ELSE IF op = "observe" /\ \E k \in 1..Len(arg) : QualifyingEntry(arg[k])
            THEN [id |-> arg[CHOOSE k \in 1..Len(arg) :
                               /\ QualifyingEntry(arg[k])
                               /\ \A j \in (k+1)..Len(arg) : ~QualifyingEntry(arg[j])].id]
            ELSE hist
      [] probe = "click" ->
            IF op = "click" THEN [target |-> arg, reached |-> ViewerReached(arg)]
            ELSE HistInit("click")
      [] probe = "pending" ->
            IF op \in HostOps THEN HistInit("pending")
            ELSE [call |-> call, pending |-> loadPending, open |-> isOpen]
      [] probe = "closed" ->
            IF call = "close" /\ isOpen /\ loadPending
            THEN [stage |-> "closed", reopened |-> FALSE]
            ELSE IF call = "show" /\ hist.stage = "closed"
            THEN [stage |-> "closed", reopened |-> TRUE]
            ELSE IF op = "loadSucceeds" /\ hist.stage = "closed"
            THEN [hist EXCEPT !.stage = "loaded"]
            ELSE IF op = "frame" /\ hist.stage = "loaded"
            THEN [hist EXCEPT !.stage = "framed"]
            ELSE IF op = "titleTimer" \/ (op = "frame" /\ hist.stage = "closed")
                    \/ (call = "none" /\ op \notin HostOps)
                    \/ (call = "close" /\ ~isOpen)
            THEN hist
            ELSE HistInit("closed")
      [] probe = "gesture" ->
            IF op = "heroTouchstart" THEN [down |-> TRUE, steps |-> 0, single |-> TRUE]
            ELSE IF op = "heroTouchmove" /\ carouselIndex' # carouselIndex
            THEN [hist EXCEPT !.steps = @ + 1,
                              !.single = @ /\ carouselIndex' \in
                                  {JsMod(carouselIndex + 1, heroLength),
                                   JsMod(carouselIndex - 1 + heroLength, heroLength)}]
            ELSE IF op = "heroTouchend" THEN [hist EXCEPT !.down = FALSE]
            ELSE hist
      [] probe = "converge" ->
            IF op = "loadFails" THEN [hist EXCEPT !.failed = TRUE]
            ELSE IF Len(titleTimers') > Len(titleTimers)
            THEN [hist EXCEPT !.overlapped =
                      @ \/ titleTimers # <<>> \/ loadPending \/ SlideIn \in rafCallbacks]
            ELSE hist
      [] probe = "promise" ->
            IF Len(titleTimers') > Len(titleTimers)
            THEN [live |-> TRUE, orphaned |-> hist.orphaned \/ loadPending]
            ELSE IF op \in {"loadSucceeds", "loadFails"}
            THEN [hist EXCEPT !.live = FALSE]
            ELSE hist
      [] probe = "dom" -> IF op = "DOMContentLoaded" THEN [at |-> arg] ELSE hist
      [] probe = "setting" ->
            [op |-> op, value |-> IF op \in {"themeClick", "langClick"} THEN arg ELSE ""]
      [] probe = "step" -> [op |-> op, dx |-> IF op = "heroTouchmove" THEN arg ELSE 0,
                            live |-> liveIntervals]
      [] probe = "cleanup" ->
            IF op = "register" /\ pagehides = 0
            THEN [hist EXCEPT !.before = @ \cup {arg}]
            ELSE IF op = "pagehide"
            THEN [hist EXCEPT !.ran = {fn \in CleanupCallbacks : invoked'[fn] > invoked[fn]}]
            ELSE hist
      [] probe = "fail" ->
            IF op = "loadFails" THEN [quiet |-> TRUE, idx |-> currentIndex]
            ELSE IF op \in HostOps THEN hist
            ELSE HistInit("fail")
      [] probe = "area" ->
            IF op = "loadFails" THEN [hist EXCEPT !.failed = TRUE]
            ELSE IF Len(titleTimers') > Len(titleTimers)
            THEN [failed |-> FALSE, src |-> imgSrc, opacity |-> imgOpacity,
                  transform |-> imgTransform]
            ELSE hist
      [] OTHER -> hist

Log(op, arg, call) == hist' = Observe(op, arg, call)

\* ------------------------------------------------------------------- Init
\* The state once the page has loaded: the gallery viewer constructed, the
\* carousel initialised by initCarousel() with its first interval running.
StartCore(p, n, cards) ==
    /\ images = <<>> /\ currentIndex = 0 /\ isOpen = FALSE
    /\ touchStartX = 0 /\ touchEndX = 0 /\ isDragging = FALSE
    /\ scrollY = -1                         \* this.scrollY is not yet defined
    /\ elementActive = FALSE
    /\ titleText = "" /\ titleOpacity = "" /\ titleColor = ""
    /\ imgSrc = "" /\ imgOpacity = "" /\ imgTransform = "" /\ imgTransition = ""
    /\ loadPending = FALSE
    /\ titleTimers = <<>>
    /\ bodyFixed = FALSE /\ bodyTop = 0
    /\ winScrollY = 0
    /\ rafCallbacks = {}
    /\ carouselIndex = 0 /\ isTransitioning = FALSE
    /\ carouselDragging = FALSE /\ startX = 0
    /\ heroLength = n
    /\ IF n > 1
       THEN \* initCarousel() and the initial interval
            /\ heroActive = {0}
            /\ heroZ = [i \in 0..(n - 1) |-> n - i]
            /\ liveIntervals = 1 /\ intervalIdLive = TRUE
       ELSE \* the markup as it is: any image may carry 'active', none has an
            \* inline z-index (0)
            /\ heroActive \in SUBSET (0..(n - 1))
            /\ heroZ = [i \in 0..(n - 1) |-> 0]
            /\ liveIntervals = 0 /\ intervalIdLive = FALSE
    /\ transitionTimers = 0
    /\ galleryTouch = FALSE /\ heroTouch = FALSE /\ hovering = FALSE
    /\ unhandled = FALSE
    /\ cleanupFunctions = {}
    /\ invoked = [fn \in CleanupCallbacks |-> 0]
    /\ pagehideListener = TRUE
    /\ pagehides = 0
    /\ pageCards = cards
    /\ probe = p /\ hist = HistInit(p)

\* localStorage works and is empty, the theme is the system's (light), the
\* language the browser's (en); no section has been seen.
SettingsDefault ==
    /\ storageThrows = FALSE
    /\ stored = [key \in {"theme", "language", "lastSection"} |->
                    IF key = "theme" THEN "light" ELSE NoItem]
    /\ themeAttr = "light"
    /\ currentLang = "en"
    /\ fadedIn = {}

\* Startup is over: both handlers ran, every timer fired, the loader is gone
\* and the page animations were started once.
StartupDefault ==
    /\ now = 0 /\ timers = <<>>
    /\ hasLoader = TRUE /\ domReady = TRUE /\ windowLoaded = TRUE
    /\ heroLoading = 0
    /\ contentLoadTime = 0 /\ loadedImages = 0 /\ loadStartTime = 0
    /\ loaderHidden = TRUE /\ loaderRemoved = TRUE /\ hamburgerVisible = TRUE
    /\ sequenceRuns = 1 /\ animationsStarted = 1
    /\ scrolledTo = NoItem

StartPage(p, n, cards) == StartCore(p, n, cards) /\ SettingsDefault /\ StartupDefault

\* The script's initialisation of theme and language: localStorage throws or
\* holds what an earlier visit left (prevTheme, prevLang, possibly nothing);
\* sysTheme is the system's colour scheme, browserLang the detected language.
SettingsStart(throws, prevTheme, prevLang, sysTheme, browserLang) ==
    LET savedTheme   == IF throws THEN NoItem ELSE prevTheme
        initialTheme == IF savedTheme # NoItem THEN savedTheme ELSE sysTheme
        savedLang    == IF throws THEN NoItem ELSE prevLang
    IN /\ storageThrows = throws
       /\ themeAttr = initialTheme
       /\ currentLang = IF savedLang # NoItem THEN savedLang ELSE browserLang
       /\ stored = [key \in {"theme", "language", "lastSection"} |->
                       IF throws THEN NoItem
                       ELSE IF key = "theme" THEN initialTheme
                       ELSE IF key = "language" THEN prevLang
                       ELSE NoItem]
       /\ fadedIn = {}

\* The page after its script ran, in any storage condition.
StartSettings(p) ==
    /\ StartCore(p, HeroCount, PageCards)
    /\ \E throws \in BOOLEAN : \E prevTheme \in Themes \cup {NoItem} :
       \E prevLang \in {"en", "de", NoItem} : \E sysTheme \in Themes :
          SettingsStart(throws, prevTheme, prevLang, sysTheme, "en")
    /\ StartupDefault

\* What an earlier visit left as lastSection: nothing, a section of the page,
\* an id no element has, the empty id (nav link with href '#').
SavedSections == {NoItem, "art", "gone", ""}

\* The page when its script has run and neither DOMContentLoaded nor load has
\* been dispatched: at most one hero image (no carousel), the loader in the
\* markup or not, hero images complete or still loading, localStorage
\* throwing or holding an earlier visit's lastSection.
StartStartup(p) ==
    /\ \E n \in 0..1 : StartCore(p, n, PageCards)
    /\ storageThrows \in BOOLEAN
    /\ \E last \in SavedSections :
          stored = [key \in {"theme", "language", "lastSection"} |->
                       IF key = "theme" THEN (IF storageThrows THEN NoItem ELSE "light")
                       ELSE IF key = "lastSection" THEN last ELSE NoItem]
    /\ themeAttr = "light" /\ currentLang = "en" /\ fadedIn = {}
    /\ now = 0 /\ timers = <<>>
    /\ hasLoader \in BOOLEAN
    /\ domReady = FALSE /\ windowLoaded = FALSE
    /\ heroLoading \in 0..heroLength
    /\ contentLoadTime = 0 /\ loadedImages = 0 /\ loadStartTime = 0
    /\ loaderHidden = FALSE /\ loaderRemoved = FALSE /\ hamburgerVisible = TRUE
    /\ sequenceRuns = 0 /\ animationsStarted = 0
    /\ scrolledTo = NoItem

\* The page with n hero images.
StartHeroes(p, n) == StartPage(p, n, PageCards)

\* The page with HeroCount hero images.
Start(p) == StartHeroes(p, HeroCount)

\* A page whose markup has cards in one section: any list of up to MaxCards
\* cards.
StartResolve(p) ==
    \E section \in Sections : \E titles \in CardLists :
        StartPage(p, HeroCount,
                  [x \in Sections |-> IF x = section THEN CardsOf(titles) ELSE <<>>])

\* The page with any number of hero images.
StartCarousel(p) == \E n \in 0..HeroCount : StartHeroes(p, n)

Init == Start("none")

\* ------------------------------------------------------ the gallery viewer
NoSection == "null"

\* updateImage(direction) up to its await, for this.images = list and
\* this.currentIndex = index: the title fade and its timer, the image's
\* initial state, and loadImage() setting src and the load handlers.
updateImage(list, index, direction) ==
    IF At(list, index) = Undefined
    THEN UNCHANGED renderVars
    ELSE /\ Len(titleTimers) < MaxTitleTimers
         /\ titleOpacity' = "0"
         /\ titleTimers' = Append(titleTimers, At(list, index).title)
         /\ imgTransform' = IF direction = "none" THEN Centered
                            ELSE IF direction = "prev" THEN FromLeft ELSE FromRight
         /\ imgOpacity' = "0"
         /\ imgTransition' = "none"
         /\ imgSrc' = At(list, index).src
         /\ loadPending' = TRUE
         /\ UNCHANGED <<titleText, titleColor>>

\* show(images, startIndex, section)
show(list, startIndex, section) ==
    /\ images' = IF section # NoSection THEN ResolveSection(section) ELSE list
    /\ currentIndex' = startIndex
    /\ isOpen' = TRUE
    /\ scrollY' = winScrollY
    /\ bodyFixed' = TRUE
    /\ bodyTop' = winScrollY
    \* the fixed body leaves nothing to scroll: window.scrollY reads 0
    /\ winScrollY' = 0
    /\ elementActive' = TRUE
    /\ updateImage(images', currentIndex', "none")
    /\ UNCHANGED rafCallbacks

\* next() without the wraparound: the index runs past the end of the list.
next_NoWrap ==
    IF ~isOpen
    THEN UNCHANGED methodVars
    ELSE /\ currentIndex' = currentIndex + 1
         /\ updateImage(images, currentIndex', "next")
         /\ UNCHANGED <<images, isOpen, scrollY, elementActive, pageVars, rafCallbacks>>

\* next() with a lock: a call during a pending load is dropped.
next_Locked ==
    IF ~isOpen \/ loadPending
    THEN UNCHANGED methodVars
    ELSE /\ currentIndex' = JsMod(currentIndex + 1, Len(images))
         /\ updateImage(images, currentIndex', "next")
         /\ UNCHANGED <<images, isOpen, scrollY, elementActive, pageVars, rafCallbacks>>

\* next()
next ==
    IF ~isOpen
    THEN UNCHANGED methodVars
    ELSE /\ currentIndex' = JsMod(currentIndex + 1, Len(images))
         /\ updateImage(images, currentIndex', "next")
         /\ UNCHANGED <<images, isOpen, scrollY, elementActive, pageVars, rafCallbacks>>

\* prev()
prev ==
    IF ~isOpen
    THEN UNCHANGED methodVars
    ELSE /\ currentIndex' = JsMod(currentIndex - 1 + Len(images), Len(images))
         /\ updateImage(images, currentIndex', "prev")
         /\ UNCHANGED <<images, isOpen, scrollY, elementActive, pageVars, rafCallbacks>>

\* close() without its isOpen guard: a closed gallery is closed again.
close_NoGuard ==
    /\ isOpen' = FALSE
    /\ elementActive' = FALSE
    /\ rafCallbacks' = rafCallbacks \cup {RestoreScroll}
    /\ UNCHANGED <<images, currentIndex, scrollY, renderVars, pageVars>>

\* close()
close ==
    IF ~isOpen
    THEN UNCHANGED methodVars
    ELSE /\ isOpen' = FALSE
         /\ elementActive' = FALSE
         /\ rafCallbacks' = rafCallbacks \cup {RestoreScroll}
         /\ UNCHANGED <<images, currentIndex, scrollY, renderVars, pageVars>>

\* --------------------------------------------------- the gallery's handlers
\* click on .gallery-close
CloseButtonClick ==
    /\ close
    /\ UNCHANGED <<touchVars, carouselVars, hostVars, moduleVars, probe>>
    /\ Log("closeButton", 0, "close")

\* click on .gallery-nav.prev
PrevButtonClick ==
    /\ IF ~isOpen THEN UNCHANGED methodVars ELSE prev
    /\ UNCHANGED <<touchVars, carouselVars, hostVars, moduleVars, probe>>
    /\ Log("prevButton", 0, IF isOpen THEN "prev" ELSE "none")

\* click on .gallery-nav.next
NextButtonClick ==
    /\ IF ~isOpen THEN UNCHANGED methodVars ELSE next
    /\ UNCHANGED <<touchVars, carouselVars, hostVars, moduleVars, probe>>
    /\ Log("nextButton", 0, IF isOpen THEN "next" ELSE "none")

\* touchstart on .gallery-image-container at clientX = x
TouchStart(x) ==
    /\ ~galleryTouch
    /\ galleryTouch' = TRUE
    /\ IF ~isOpen
       THEN UNCHANGED touchVars
       ELSE /\ touchStartX' = x
            /\ isDragging' = TRUE
            /\ UNCHANGED touchEndX
    /\ UNCHANGED <<methodVars, carouselVars, heroTouch, hovering, unhandled, moduleVars, probe>>
    /\ Log("touchstart", x, "none")

\* touchmove on .gallery-image-container to clientX = x
TouchMove(x) ==
    /\ galleryTouch
    /\ UNCHANGED galleryTouch
    /\ IF ~isDragging \/ ~isOpen
       THEN UNCHANGED touchVars
       ELSE /\ touchEndX' = x
            /\ UNCHANGED <<touchStartX, isDragging>>
    /\ UNCHANGED <<methodVars, carouselVars, heroTouch, hovering, unhandled, moduleVars, probe>>
    /\ Log("touchmove", x, "none")

\* The touchend handler with the directions exchanged: a rightward drag
\* calls next(), a leftward drag prev().
TouchEnd_Swapped ==
    /\ galleryTouch
    /\ galleryTouch' = FALSE
    /\ IF ~isDragging \/ ~isOpen
       THEN UNCHANGED <<touchVars, methodVars>>
       ELSE /\ IF OverThreshold(touchEndX - touchStartX)
               THEN IF touchEndX - touchStartX > 0 THEN next ELSE prev
               ELSE UNCHANGED methodVars
            /\ isDragging' = FALSE
            /\ touchStartX' = 0
            /\ touchEndX' = 0
    /\ UNCHANGED <<carouselVars, heroTouch, hovering, unhandled, moduleVars, probe>>
    /\ Log("touchend", 0, "none")

\* touchend on .gallery-image-container
TouchEnd ==
    /\ galleryTouch
    /\ galleryTouch' = FALSE
    /\ IF ~isDragging \/ ~isOpen
       THEN UNCHANGED <<touchVars, methodVars>>
       ELSE /\ IF OverThreshold(touchEndX - touchStartX)
               THEN IF touchEndX - touchStartX > 0 THEN prev ELSE next
               ELSE UNCHANGED methodVars
            /\ isDragging' = FALSE
            /\ touchStartX' = 0
            /\ touchEndX' = 0
    /\ UNCHANGED <<carouselVars, heroTouch, hovering, unhandled, moduleVars, probe>>
    /\ Log("touchend", 0,
           IF ~isDragging \/ ~isOpen \/ ~OverThreshold(touchEndX - touchStartX)
           THEN "none"
           ELSE IF touchEndX - touchStartX > 0 THEN "prev" ELSE "next")

\* The keydown handler with the two arrow keys exchanged.
KeyDown_Swapped(key) ==
    /\ IF ~isOpen THEN UNCHANGED methodVars
       ELSE IF key = "ArrowLeft" THEN next
       ELSE IF key = "ArrowRight" THEN prev
       ELSE IF key = "Escape" THEN close
       ELSE UNCHANGED methodVars
    /\ UNCHANGED <<touchVars, carouselVars, hostVars, moduleVars, probe>>
    /\ Log(key, 0,
           IF ~isOpen THEN "none"
           ELSE IF key = "ArrowLeft" THEN "next"
           ELSE IF key = "ArrowRight" THEN "prev"
           ELSE IF key = "Escape" THEN "close"
           ELSE "none")

\* keydown on document
KeyDown(key) ==
    /\ IF ~isOpen THEN UNCHANGED methodVars
       ELSE IF key = "ArrowLeft" THEN prev
       ELSE IF key = "ArrowRight" THEN next
       ELSE IF key = "Escape" THEN close
       ELSE UNCHANGED methodVars
    /\ UNCHANGED <<touchVars, carouselVars, hostVars, moduleVars, probe>>
    /\ Log(key, 0,
           IF ~isOpen THEN "none"
           ELSE IF key = "ArrowLeft" THEN "prev"
           ELSE IF key = "ArrowRight" THEN "next"
           ELSE IF key = "Escape" THEN "close"
           ELSE "none")

\* click whose target is the .gallery-viewer backdrop itself
BackdropClick ==
    /\ close
    /\ UNCHANGED <<touchVars, carouselVars, hostVars, moduleVars, probe>>
    /\ Log("backdrop", 0, "close")

\* A click on an element of the gallery viewer: the listeners on its path
\* run until one stops the propagation; the viewer's listener closes the
\* gallery only when the viewer itself is the target.
ClickOn(target) ==
    /\ IF target = "prev" THEN (IF ~isOpen THEN UNCHANGED methodVars ELSE prev)
       ELSE IF target = "next" THEN (IF ~isOpen THEN UNCHANGED methodVars ELSE next)
       ELSE IF target = "close" THEN close
       ELSE IF ViewerReached(target) /\ target = "viewer" THEN close
       ELSE UNCHANGED methodVars
    /\ UNCHANGED <<touchVars, carouselVars, hostVars, moduleVars, probe>>
    /\ Log("click", target,
           IF target \in {"prev", "next"} THEN (IF isOpen THEN target ELSE "none")
           ELSE IF target \in {"close", "viewer"} THEN "close"
           ELSE "none")

\* ------------------------------------------------ the page's click handlers
\* Array.from(heroContainer.children).indexOf(
\*     heroContainer.querySelector('.hero-image.active'))
\* where the container's children are the hero images.
HeroActiveIndex ==
    IF heroActive = {} THEN -1
    ELSE CHOOSE i \in heroActive : \A j \in heroActive : i <= j

\* click on .hero-image-container (the active viewer covers the page, so the
\* page is clicked only while the viewer is not shown)
HeroClick ==
    /\ ~elementActive
    /\ show(heroImages, HeroActiveIndex, NoSection)
    /\ UNCHANGED <<touchVars, carouselVars, hostVars, moduleVars, probe>>
    /\ Log("heroClick", HeroActiveIndex, "show")

\* click on the k-th .content-card of a section (not on its reference icon);
\* the card's parent holds the section's cards and nothing else.
CardClick(section, k) ==
    /\ ~elementActive
    /\ show(<<>>, CountBefore(section, k - 1), section)
    /\ UNCHANGED <<touchVars, carouselVars, hostVars, moduleVars, probe>>
    /\ Log("card:" \o section, CountBefore(section, k - 1), "show")

\* ------------------------------------------- timers, loads, frames, scrolling
\* The title timers firing newest first.
TitleTimerFires_Newest ==
    /\ titleTimers # <<>>
    /\ titleText' = titleTimers[Len(titleTimers)]
    /\ titleOpacity' = "1"
    /\ titleTimers' = SubSeq(titleTimers, 1, Len(titleTimers) - 1)
    /\ UNCHANGED <<titleColor, imageVars, loadPending, coreVars, touchVars, pageVars,
                   rafCallbacks, carouselVars, hostVars, moduleVars, probe>>
    /\ Log("titleTimer", 0, "none")

\* The oldest 150 ms title timer fires.
TitleTimerFires ==
    /\ titleTimers # <<>>
    /\ titleText' = Head(titleTimers)
    /\ titleOpacity' = "1"
    /\ titleTimers' = Tail(titleTimers)
    /\ UNCHANGED <<titleColor, imageVars, loadPending, coreVars, touchVars, pageVars,
                   rafCallbacks, carouselVars, hostVars, moduleVars, probe>>
    /\ Log("titleTimer", 0, "none")

\* The load handlers of a gallery that ignores a load completing while it is
\* closed.
LoadSucceeds_OpenOnly ==
    /\ loadPending
    /\ loadPending' = FALSE
    /\ imgOpacity' = IF isOpen THEN "1" ELSE imgOpacity
    /\ rafCallbacks' = IF isOpen THEN rafCallbacks \cup {SlideIn} ELSE rafCallbacks
    /\ UNCHANGED <<titleVars, imgSrc, imgTransform, imgTransition, titleTimers,
                   coreVars, touchVars, pageVars, carouselVars, hostVars, moduleVars, probe>>
    /\ Log("loadSucceeds", 0, "none")

\* The image element fires load: onload, then updateImage() resumes after its
\* await and requests the frame that starts the slide-in transition.
LoadSucceeds ==
    /\ loadPending
    /\ loadPending' = FALSE
    /\ imgOpacity' = "1"
    /\ rafCallbacks' = rafCallbacks \cup {SlideIn}
    /\ UNCHANGED <<titleVars, imgSrc, imgTransform, imgTransition, titleTimers,
                   coreVars, touchVars, pageVars, carouselVars, hostVars, moduleVars, probe>>
    /\ Log("loadSucceeds", 0, "none")

\* updateImage() without its try/catch: the rejection of loadImage() leaves
\* updateImage() and its caller, and no error label is shown.
LoadFails_Uncaught ==
    /\ loadPending
    /\ loadPending' = FALSE
    /\ unhandled' = TRUE
    /\ UNCHANGED <<titleVars, imageVars, titleTimers, coreVars, touchVars,
                   pageVars, rafCallbacks, carouselVars, galleryTouch, heroTouch,
                   hovering, moduleVars, probe>>
    /\ Log("loadFails", 0, "none")

\* The image element fires error: onerror rejects, updateImage() resumes in
\* its catch block, which handles the rejection.
LoadFails ==
    /\ loadPending
    /\ loadPending' = FALSE
    /\ titleText' = ErrorLabel
    /\ titleColor' = "var(--error-color, #ff5555)"
    /\ UNCHANGED <<titleOpacity, imageVars, titleTimers, coreVars, touchVars,
                   pageVars, rafCallbacks, carouselVars, hostVars, moduleVars, probe>>
    /\ Log("loadFails", 0, "none")

\* The user scrolls the page to offset y (impossible while the body is fixed).
Scroll(y) ==
    /\ ~bodyFixed
    /\ y # winScrollY
    /\ winScrollY' = y
    /\ UNCHANGED <<bodyFixed, bodyTop, galleryVars, renderVars, rafCallbacks,
                   carouselVars, hostVars, moduleVars, probe>>
    /\ Log("scroll", y, "none")

\* ------------------------------------------------------------ the carousel
\* updateCarousel(direction) without its isTransitioning guard.
updateCarousel_NoGuard(direction) ==
    /\ isTransitioning' = TRUE
    /\ heroActive' = heroActive \ {carouselIndex}
    /\ carouselIndex' = IF direction = "next"
                         THEN JsMod(carouselIndex + 1, heroLength)
                         ELSE JsMod(carouselIndex - 1 + heroLength, heroLength)
    /\ heroZ' = [[heroZ EXCEPT ![carouselIndex] = 1] EXCEPT ![carouselIndex'] = 2]
    /\ rafCallbacks' = rafCallbacks \cup {Activate(carouselIndex')}

\* updateCarousel(direction) without the removal of the outgoing image's
\* 'active' class.
updateCarousel_KeepsActive(direction) ==
    IF isTransitioning
    THEN UNCHANGED <<carouselIndex, isTransitioning, heroActive, heroZ, rafCallbacks>>
    ELSE /\ isTransitioning' = TRUE
         /\ heroActive' = heroActive
         /\ carouselIndex' = IF direction = "next"
                             THEN JsMod(carouselIndex + 1, heroLength)
                             ELSE JsMod(carouselIndex - 1 + heroLength, heroLength)
         /\ heroZ' = [[heroZ EXCEPT ![carouselIndex] = 1] EXCEPT ![carouselIndex'] = 2]
         /\ rafCallbacks' = rafCallbacks \cup {Activate(carouselIndex')}

\* updateCarousel(direction)
updateCarousel(direction) ==
    IF isTransitioning
    THEN UNCHANGED <<carouselIndex, isTransitioning, heroActive, heroZ, rafCallbacks>>
    ELSE /\ isTransitioning' = TRUE
         /\ heroActive' = heroActive \ {carouselIndex}
         /\ carouselIndex' = IF direction = "next"
                             THEN JsMod(carouselIndex + 1, heroLength)
                             ELSE JsMod(carouselIndex - 1 + heroLength, heroLength)
         /\ heroZ' = [[heroZ EXCEPT ![carouselIndex] = 1] EXCEPT ![carouselIndex'] = 2]
         /\ rafCallbacks' = rafCallbacks \cup {Activate(carouselIndex')}

\* The interval timer fires: updateCarousel('next').
IntervalTick ==
    /\ liveIntervals > 0
    /\ updateCarousel("next")
    /\ UNCHANGED <<heroLength, carouselDragging, startX, liveIntervals, intervalIdLive,
                   transitionTimers, galleryVars, renderVars, pageVars, hostVars, moduleVars, probe>>
    /\ Log("tick", 0, "none")

\* The 600 ms callback without `isTransitioning = false`.
TransitionTimerFires_KeepsFlag ==
    /\ transitionTimers > 0
    /\ transitionTimers' = transitionTimers - 1
    /\ heroZ' = [idx \in 0..(heroLength - 1) |->
                    heroLength - JsMod(idx - carouselIndex + heroLength, heroLength)]
    /\ UNCHANGED <<heroLength, carouselIndex, isTransitioning, carouselDragging, startX,
                   heroActive, liveIntervals, intervalIdLive, galleryVars, renderVars,
                   pageVars, rafCallbacks, hostVars, moduleVars, probe>>
    /\ Log("transitionTimer", 0, "none")

\* The 600 ms timer set in updateCarousel's frame callback fires.
TransitionTimerFires ==
    /\ transitionTimers > 0
    /\ transitionTimers' = transitionTimers - 1
    /\ isTransitioning' = FALSE
    /\ heroZ' = [idx \in 0..(heroLength - 1) |->
                    heroLength - JsMod(idx - carouselIndex + heroLength, heroLength)]
    /\ UNCHANGED <<heroLength, carouselIndex, carouselDragging, startX, heroActive, liveIntervals,
                   intervalIdLive, galleryVars, renderVars, pageVars, rafCallbacks,
                   hostVars, moduleVars, probe>>
    /\ Log("transitionTimer", 0, "none")

\* clearInterval(intervalId)
clearInterval ==
    /\ liveIntervals' = IF intervalIdLive THEN liveIntervals - 1 ELSE liveIntervals
    /\ intervalIdLive' = FALSE

\* restartInterval() without its clearInterval(intervalId).
restartInterval_NoClear ==
    /\ liveIntervals' = liveIntervals + 1
    /\ intervalIdLive' = TRUE

\* restartInterval()
restartInterval ==
    /\ liveIntervals' = (IF intervalIdLive THEN liveIntervals - 1 ELSE liveIntervals) + 1
    /\ intervalIdLive' = TRUE

\* touchstart on .hero-image-container: handleTouchStart
handleTouchStart(x) ==
    /\ ~heroTouch
    /\ heroTouch' = TRUE
    /\ IF CarouselInstalled
       THEN /\ carouselDragging' = TRUE
            /\ startX' = x
            /\ clearInterval
       ELSE UNCHANGED <<carouselDragging, startX, liveIntervals, intervalIdLive>>
    /\ UNCHANGED <<heroLength, carouselIndex, isTransitioning, heroActive, heroZ,
                   transitionTimers, rafCallbacks, galleryVars, renderVars, pageVars,
                   galleryTouch, hovering, unhandled, moduleVars, probe>>
    /\ Log("heroTouchstart", x, "none")

\* handleTouchMove with the two directions exchanged.
handleTouchMove_Swapped(x) ==
    /\ heroTouch
    /\ IF CarouselInstalled /\ carouselDragging /\ OverThreshold(x - startX)
       THEN /\ carouselDragging' = FALSE
            /\ updateCarousel(IF x - startX > 0 THEN "next" ELSE "prev")
            /\ startX' = 0
       ELSE UNCHANGED <<carouselDragging, startX, carouselIndex, isTransitioning,
                        heroActive, heroZ, rafCallbacks>>
    /\ UNCHANGED <<heroLength, liveIntervals, intervalIdLive, transitionTimers,
                   galleryVars, renderVars, pageVars, hostVars, moduleVars, probe>>
    /\ Log("heroTouchmove", x - startX, "none")

\* handleTouchMove without `isDragging = false`: the gesture goes on after a
\* step.
handleTouchMove_KeepsDragging(x) ==
    /\ heroTouch
    /\ IF CarouselInstalled /\ carouselDragging /\ OverThreshold(x - startX)
       THEN /\ carouselDragging' = carouselDragging
            /\ updateCarousel(IF x - startX > 0 THEN "prev" ELSE "next")
            /\ startX' = 0
       ELSE UNCHANGED <<carouselDragging, startX, carouselIndex, isTransitioning,
                        heroActive, heroZ, rafCallbacks>>
    /\ UNCHANGED <<heroLength, liveIntervals, intervalIdLive, transitionTimers,
                   galleryVars, renderVars, pageVars, hostVars, moduleVars, probe>>
    /\ Log("heroTouchmove", x - startX, "none")

\* touchmove on .hero-image-container: handleTouchMove
handleTouchMove(x) ==
    /\ heroTouch
    /\ IF CarouselInstalled /\ carouselDragging /\ OverThreshold(x - startX)
       THEN /\ carouselDragging' = FALSE
            /\ updateCarousel(IF x - startX > 0 THEN "prev" ELSE "next")
            /\ startX' = 0
       ELSE UNCHANGED <<carouselDragging, startX, carouselIndex, isTransitioning,
                        heroActive, heroZ, rafCallbacks>>
    /\ UNCHANGED <<heroLength, liveIntervals, intervalIdLive, transitionTimers,
                   galleryVars, renderVars, pageVars, hostVars, moduleVars, probe>>
    /\ Log("heroTouchmove", x - startX, "none")

\* touchend on .hero-image-container: handleTouchEnd
handleTouchEnd ==
    /\ heroTouch
    /\ heroTouch' = FALSE
    /\ IF CarouselInstalled
       THEN /\ carouselDragging' = FALSE
            /\ startX' = 0
            /\ restartInterval
       ELSE UNCHANGED <<carouselDragging, startX, liveIntervals, intervalIdLive>>
    /\ UNCHANGED <<heroLength, carouselIndex, isTransitioning, heroActive, heroZ,
                   transitionTimers, rafCallbacks, galleryVars, renderVars, pageVars,
                   galleryTouch, hovering, unhandled, moduleVars, probe>>
    /\ Log("heroTouchend", 0, "none")

\* mouseenter on .hero-image-container
MouseEnter ==
    /\ ~hovering
    /\ hovering' = TRUE
    /\ IF CarouselInstalled
       THEN clearInterval
       ELSE UNCHANGED <<liveIntervals, intervalIdLive>>
    /\ UNCHANGED <<heroLength, carouselIndex, isTransitioning, carouselDragging, startX,
                   heroActive, heroZ, transitionTimers, rafCallbacks, galleryVars,
                   renderVars, pageVars, galleryTouch, heroTouch, unhandled,
                   moduleVars, probe>>
    /\ Log("mouseenter", 0, "none")

\* mouseleave on .hero-image-container
MouseLeave ==
    /\ hovering
    /\ hovering' = FALSE
    /\ IF CarouselInstalled
       THEN restartInterval
       ELSE UNCHANGED <<liveIntervals, intervalIdLive>>
    /\ UNCHANGED <<heroLength, carouselIndex, isTransitioning, carouselDragging, startX,
                   heroActive, heroZ, transitionTimers, rafCallbacks, galleryVars,
                   renderVars, pageVars, galleryTouch, heroTouch, unhandled,
                   moduleVars, probe>>
    /\ Log("mouseleave", 0, "none")

\* ------------------------------------------------------- animation frames
\* The next repaint: every callback requested since the last one runs, in
\* request order.  The three kinds of callback write disjoint state and a
\* callback requested twice has the effect of one, so the set suffices.
Frame ==
    /\ rafCallbacks # {}
    /\ rafCallbacks' = {}
    \* close(): release the body and scroll back
    /\ IF RestoreScroll \in rafCallbacks
       THEN /\ bodyFixed' = FALSE
            /\ bodyTop' = 0
            /\ winScrollY' = scrollY
       ELSE UNCHANGED pageVars
    \* updateImage(): start the slide-in transition
    /\ IF SlideIn \in rafCallbacks
       THEN /\ imgTransition' = "transform 0.6s, opacity 0.6s"
            /\ imgTransform' = Centered
            /\ imgOpacity' = "1"
       ELSE UNCHANGED <<imgTransition, imgTransform, imgOpacity>>
    \* updateCarousel(): mark the incoming image, start the 600 ms timer
    /\ heroActive' = heroActive \cup {c.img : c \in {d \in rafCallbacks : d.cb = "activate"}}
    /\ transitionTimers' = transitionTimers
                             + Cardinality({d \in rafCallbacks : d.cb = "activate"})
    /\ UNCHANGED <<titleVars, imgSrc, loadPending, titleTimers, galleryVars,
                   heroLength, carouselIndex, isTransitioning, carouselDragging, startX, heroZ,
                   liveIntervals, intervalIdLive, hostVars, moduleVars, probe>>
    /\ Log("frame", 0, "none")

\* ------------------------------------------------------ cleanup registry
\* registerCleanup(fn)
registerCleanup(fn) ==
    /\ cleanupFunctions' = cleanupFunctions \cup {fn}
    /\ UNCHANGED <<invoked, pagehideListener, pagehides, galleryVars, renderVars,
                   pageVars, rafCallbacks, carouselVars, hostVars, nonCleanupVars, probe>>
    /\ Log("register", fn, "none")

\* The pagehide handler without cleanupFunctions.clear().
PageHide_NoClear ==
    /\ pagehides < MaxPagehides
    /\ pagehides' = pagehides + 1
    /\ IF pagehideListener
       THEN /\ invoked' = [fn \in CleanupCallbacks |->
                             IF fn \in cleanupFunctions THEN invoked[fn] + 1
                             ELSE invoked[fn]]
            /\ pagehideListener' = FALSE
            /\ UNCHANGED cleanupFunctions
       ELSE UNCHANGED <<cleanupFunctions, invoked, pagehideListener>>
    /\ UNCHANGED <<galleryVars, renderVars, pageVars, rafCallbacks, carouselVars,
                   hostVars, nonCleanupVars, probe>>
    /\ Log("pagehide", 0, "none")

\* A pagehide event on the window: the listener, installed with
\* { once: true }, is removed before it runs; it invokes every registered
\* callback and clears the set.
PageHide ==
    /\ pagehides < MaxPagehides
    /\ pagehides' = pagehides + 1
    /\ IF pagehideListener
       THEN /\ invoked' = [fn \in CleanupCallbacks |->
                             IF fn \in cleanupFunctions THEN invoked[fn] + 1
                             ELSE invoked[fn]]
            /\ cleanupFunctions' = {}
            /\ pagehideListener' = FALSE
       ELSE UNCHANGED <<cleanupFunctions, invoked, pagehideListener>>
    /\ UNCHANGED <<galleryVars, renderVars, pageVars, rafCallbacks, carouselVars,
                   hostVars, nonCleanupVars, probe>>
    /\ Log("pagehide", 0, "none")

\* ---------------------------------------------------------- scroll memory
\* try { localStorage.setItem(key, value); } catch (e) {}
setItem(key, value) ==
    stored' = IF storageThrows THEN stored ELSE [stored EXCEPT ![key] = value]

\* click on a .nav-link whose href attribute is href
NavLinkClick(href) ==
    /\ IF href # <<>> /\ Head(href) = "#"
       THEN setItem("lastSection", Join(Tail(href)))
       ELSE UNCHANGED stored
    /\ UNCHANGED <<storageThrows, themeAttr, currentLang, fadedIn, pageCards, startupVars, cleanupVars,
                   galleryVars, renderVars, pageVars, rafCallbacks, carouselVars,
                   hostVars, probe>>
    /\ Log("navClick", href, "none")

\* The id the callback of sectionObserver stores while it runs through the
\* first k entries, starting from the stored value last.
RECURSIVE LastRecorded(_, _, _)
LastRecorded(entries, k, last) ==
    IF k = 0 THEN last
    ELSE IF entries[k].isIntersecting /\ entries[k].ratio >= 50 /\ entries[k].id # ""
         THEN entries[k].id
         ELSE LastRecorded(entries, k - 1, last)

\* The callback of sectionObserver recording every intersecting entry.
SectionObserved_AnyRatio(entries) ==
    /\ setItem("lastSection",
               IF \E k \in 1..Len(entries) : entries[k].isIntersecting
               THEN entries[CHOOSE k \in 1..Len(entries) :
                              /\ entries[k].isIntersecting
                              /\ \A j \in (k+1)..Len(entries) : ~entries[j].isIntersecting].id
               ELSE stored["lastSection"])
    /\ fadedIn' = fadedIn \cup {entries[k].id : k \in {j \in 1..Len(entries) :
                                                         entries[j].isIntersecting}}
    /\ UNCHANGED <<storageThrows, themeAttr, currentLang, pageCards, startupVars, cleanupVars,
                   galleryVars, renderVars, pageVars, rafCallbacks, carouselVars,
                   hostVars, probe>>
    /\ Log("observe", entries, "none")

\* The callback of sectionObserver, given the entries of one notification.
SectionObserved(entries) ==
    /\ setItem("lastSection", LastRecorded(entries, Len(entries), stored["lastSection"]))
    /\ fadedIn' = fadedIn \cup {entries[k].id : k \in {j \in 1..Len(entries) :
                                                         entries[j].isIntersecting}}
    /\ UNCHANGED <<storageThrows, themeAttr, currentLang, pageCards, startupVars, cleanupVars,
                   galleryVars, renderVars, pageVars, rafCallbacks, carouselVars,
                   hostVars, probe>>
    /\ Log("observe", entries, "none")

\* ---------------------------------------------------------------- settings
\* applyThemeUI(theme) with the two statements of its try block exchanged.
applyThemeUI_StoreFirst(theme) ==
    /\ setItem("theme", theme)
    /\ themeAttr' = IF storageThrows THEN themeAttr ELSE theme

\* applyThemeUI(theme): inside one try block, set the attribute, then store.
applyThemeUI(theme) ==
    /\ themeAttr' = theme
    /\ setItem("theme", theme)

\* click on a .theme-option button
ThemeClick(theme) ==
    /\ applyThemeUI(theme)
    /\ UNCHANGED <<storageThrows, currentLang, fadedIn, pageCards, startupVars, cleanupVars,
                   galleryVars, renderVars, pageVars, rafCallbacks, carouselVars,
                   hostVars, probe>>
    /\ Log("themeClick", theme, "none")

\* click on a .lang-option button
LangClick(lang) ==
    /\ currentLang' = lang
    /\ setItem("language", lang)
    /\ UNCHANGED <<storageThrows, themeAttr, fadedIn, pageCards, startupVars, cleanupVars,
                   galleryVars, renderVars, pageVars, rafCallbacks, carouselVars,
                   hostVars, probe>>
    /\ Log("langClick", lang, "none")

\* ----------------------------------------------------------------- startup
\* What the startup handlers leave alone.
restVars == <<galleryVars, renderVars, pageVars, rafCallbacks, hostVars, cleanupVars,
              pageCards, settingsVars, probe>>
quietVars == <<restVars, hist>>

Max(a, b) == IF a >= b THEN a ELSE b
Min(a, b) == IF a <= b THEN a ELSE b

\* ANIMATION_TIMING.loaderMinDisplay, .loaderFadeOut; the delay before
\* loader.remove(); the fallback delay; minimumLoadTime and animationDuration
\* of the load handler.
loaderMinDisplay == 1200
loaderFadeOut == 600
LoaderRemoveDelay == 1000
FallbackDelay == 3000
minimumLoadTime == 2500
animationDuration == 800

\* setTimeout(fn, delay) on the timer list ts
SetTimeout(ts, fn, delay) == Append(ts, [fn |-> fn, due |-> now + delay])

\* startAnimationsSequence() on the timer list ts: the first timer waits for
\* the rest of the minimum loader time.
startAnimationsSequence(ts) ==
    SetTimeout(ts, "hideLoader", Max(0, loaderMinDisplay - (now - contentLoadTime)))

\* The timer at position i is the next to run: it is due, and no timer is
\* due earlier, nor one set before it due at the same time.
Runs(i) ==
    /\ i \in 1..Len(timers)
    /\ timers[i].due <= now
    /\ \A j \in 1..Len(timers) :
          \/ timers[j].due > timers[i].due
          \/ (timers[j].due = timers[i].due /\ j >= i)

\* The timer list without position i
Without(ts, i) == [k \in 1..(Len(ts) - 1) |-> IF k < i THEN ts[k] ELSE ts[k + 1]]

\* Time passes up to the next multiple of Tick or the next due timer; no
\* timer stays behind.
TimePasses ==
    /\ now < MaxNow
    /\ \A i \in 1..Len(timers) : timers[i].due > now
    /\ LET step == (now \div Tick + 1) * Tick
           dues == {timers[i].due : i \in 1..Len(timers)}
       IN now' = IF dues = {} THEN step
                 ELSE Min(step, CHOOSE d \in dues : \A e \in dues : d <= e)
    /\ UNCHANGED <<timers, hasLoader, domReady, windowLoaded, heroLoading,
                   contentLoadTime, loadedImages, loadStartTime, loaderHidden,
                   loaderRemoved, hamburgerVisible, sequenceRuns, animationsStarted,
                   scrolledTo, carouselVars, quietVars>>

\* The DOMContentLoaded handler without the fallback timer of
\* preloadHeroImages.
DOMContentLoaded_NoFallback ==
    /\ ~domReady
    /\ domReady' = TRUE
    /\ hamburgerVisible' = FALSE
    /\ IF ~hasLoader
       THEN UNCHANGED <<timers, contentLoadTime, loadedImages, sequenceRuns>>
       ELSE LET complete == heroLength - heroLoading
                starts == complete > 0 /\ complete = heroLength
            IN /\ contentLoadTime' = now
               /\ loadedImages' = complete
               /\ sequenceRuns' = IF starts THEN sequenceRuns + 1 ELSE sequenceRuns
               /\ timers' = IF starts
                             THEN SetTimeout(timers, "hideLoader", loaderMinDisplay)
                             ELSE timers
    /\ UNCHANGED <<now, hasLoader, windowLoaded, heroLoading, loadStartTime,
                   loaderHidden, loaderRemoved, animationsStarted, scrolledTo,
                   carouselVars, restVars>>
    /\ Log("DOMContentLoaded", now, "none")

\* The DOMContentLoaded handler: hide the hamburger; without a .loader
\* return; preloadHeroImages() counts the complete hero images, starts the
\* sequence if that was all of them, and sets the fallback timer.
DOMContentLoaded ==
    /\ ~domReady
    /\ domReady' = TRUE
    /\ hamburgerVisible' = FALSE
    /\ IF ~hasLoader
       THEN UNCHANGED <<timers, contentLoadTime, loadedImages, sequenceRuns>>
       ELSE LET complete == heroLength - heroLoading
                starts == complete > 0 /\ complete = heroLength
            IN /\ contentLoadTime' = now
               /\ loadedImages' = complete
               /\ sequenceRuns' = IF starts THEN sequenceRuns + 1 ELSE sequenceRuns
               /\ timers' = SetTimeout(IF starts
                                       THEN SetTimeout(timers, "hideLoader", loaderMinDisplay)
                                       ELSE timers,
                                       "fallback", FallbackDelay)
    /\ UNCHANGED <<now, hasLoader, windowLoaded, heroLoading, loadStartTime,
                   loaderHidden, loaderRemoved, animationsStarted, scrolledTo,
                   carouselVars, restVars>>
    /\ Log("DOMContentLoaded", now, "none")

\* A hero image finishes loading or fails. If preloadHeroImages() gave it
\* handlers, checkAllLoaded() counts it and starts the sequence at the last.
HeroImageSettles ==
    /\ heroLoading > 0
    /\ heroLoading' = heroLoading - 1
    /\ IF domReady /\ hasLoader
       THEN /\ loadedImages' = loadedImages + 1
            /\ IF loadedImages + 1 = heroLength
               THEN /\ timers' = startAnimationsSequence(timers)
                    /\ sequenceRuns' = sequenceRuns + 1
               ELSE UNCHANGED <<timers, sequenceRuns>>
       ELSE UNCHANGED <<loadedImages, timers, sequenceRuns>>
    /\ UNCHANGED <<now, hasLoader, domReady, windowLoaded, contentLoadTime,
                   loadStartTime, loaderHidden, loaderRemoved, hamburgerVisible,
                   animationsStarted, scrolledTo, carouselVars, quietVars>>

\* The fallback timer of preloadHeroImages() runs startAnimationsSequence().
FallbackTimer(i) ==
    /\ Runs(i) /\ timers[i].fn = "fallback"
    /\ timers' = startAnimationsSequence(Without(timers, i))
    /\ sequenceRuns' = sequenceRuns + 1
    /\ UNCHANGED <<now, hasLoader, domReady, windowLoaded, heroLoading,
                   contentLoadTime, loadedImages, loadStartTime, loaderHidden,
                   loaderRemoved, hamburgerVisible, animationsStarted, scrolledTo,
                   carouselVars, quietVars>>

\* The first timer of startAnimationsSequence(): the loader fades out, the
\* hamburger shows, the page animations are scheduled.
HideLoaderTimer(i) ==
    /\ Runs(i) /\ timers[i].fn = "hideLoader"
    /\ loaderHidden' = TRUE
    /\ hamburgerVisible' = TRUE
    /\ timers' = SetTimeout(Without(timers, i), "pageAnimations", loaderFadeOut)
    /\ UNCHANGED <<now, hasLoader, domReady, windowLoaded, heroLoading,
                   contentLoadTime, loadedImages, loadStartTime, loaderRemoved,
                   sequenceRuns, animationsStarted, scrolledTo, carouselVars, quietVars>>

\* The second timer: startPageAnimations() (the navigation and hero entrance
\* animations; the styles it sets are not part of the state), then the
\* removal of the loader is scheduled.
PageAnimationsTimer(i) ==
    /\ Runs(i) /\ timers[i].fn = "pageAnimations"
    /\ animationsStarted' = animationsStarted + 1
    /\ timers' = SetTimeout(Without(timers, i), "removeLoader", LoaderRemoveDelay)
    /\ UNCHANGED <<now, hasLoader, domReady, windowLoaded, heroLoading,
                   contentLoadTime, loadedImages, loadStartTime, loaderHidden,
                   loaderRemoved, hamburgerVisible, sequenceRuns, scrolledTo,
                   carouselVars, quietVars>>

\* The third timer: loader.remove()
RemoveLoaderTimer(i) ==
    /\ Runs(i) /\ timers[i].fn = "removeLoader"
    /\ loaderRemoved' = TRUE
    /\ timers' = Without(timers, i)
    /\ UNCHANGED <<now, hasLoader, domReady, windowLoaded, heroLoading,
                   contentLoadTime, loadedImages, loadStartTime, loaderHidden,
                   hamburgerVisible, sequenceRuns, animationsStarted, scrolledTo,
                   carouselVars, quietVars>>

\* The load handler: initImageCarousel(), then the 800 ms timer. The load
\* event waits for the page's images.
WindowLoad ==
    /\ domReady /\ ~windowLoaded /\ heroLoading = 0
    /\ windowLoaded' = TRUE
    /\ IF CarouselInstalled
       THEN /\ heroActive' = {0}
            /\ heroZ' = [i \in 0..(heroLength - 1) |-> heroLength - i]
            /\ liveIntervals' = liveIntervals + 1 /\ intervalIdLive' = TRUE
            /\ UNCHANGED <<heroLength, carouselIndex, isTransitioning, carouselDragging,
                           startX, transitionTimers>>
       ELSE UNCHANGED carouselVars
    /\ loadStartTime' = now
    /\ timers' = SetTimeout(timers, "afterAnimation", animationDuration)
    /\ UNCHANGED <<now, hasLoader, domReady, heroLoading, contentLoadTime,
                   loadedImages, loaderHidden, loaderRemoved, hamburgerVisible,
                   sequenceRuns, animationsStarted, scrolledTo, quietVars>>

\* The 800 ms timer of the load handler sets the timer for the rest of the
\* minimum load time.
AfterAnimationTimer(i) ==
    /\ Runs(i) /\ timers[i].fn = "afterAnimation"
    /\ timers' = SetTimeout(Without(timers, i), "restore",
                            Max(0, minimumLoadTime - (now - loadStartTime)))
    /\ UNCHANGED <<now, hasLoader, domReady, windowLoaded, heroLoading,
                   contentLoadTime, loadedImages, loadStartTime, loaderHidden,
                   loaderRemoved, hamburgerVisible, sequenceRuns, animationsStarted,
                   scrolledTo, carouselVars, quietVars>>

\* document.getElementById(id) finds an element
ElementExists(id) == id \in SectionIds

\* The inner timer of the load handler: hide the loader if there is one,
\* then, inside try/catch, read lastSection and scroll its element into
\* view (behavior 'auto') if the item and the element exist.
RestoreTimer(i) ==
    /\ Runs(i) /\ timers[i].fn = "restore"
    /\ timers' = Without(timers, i)
    /\ loaderHidden' = IF hasLoader THEN TRUE ELSE loaderHidden
    /\ LET last == stored["lastSection"]
       IN scrolledTo' = IF /\ ~storageThrows
                           /\ last # NoItem /\ last # ""
                           /\ ElementExists(last)
                        THEN last
                        ELSE scrolledTo
    /\ UNCHANGED <<now, hasLoader, domReady, windowLoaded, heroLoading,
                   contentLoadTime, loadedImages, loadStartTime, loaderRemoved,
                   hamburgerVisible, sequenceRuns, animationsStarted, carouselVars,
                   quietVars>>

\* ------------------------------------------------------------------- Next
\* No render of the gallery is in flight: no title timer, no load and no
\* slide-in frame is pending.
RenderIdle ==
    /\ titleTimers = <<>>
    /\ ~loadPending
    /\ SlideIn \notin rafCallbacks

\* The gallery's buttons, keys and backdrop.
Controls ==
    \/ CloseButtonClick
    \/ PrevButtonClick
    \/ NextButtonClick
    \/ \E key \in Keys : KeyDown(key)
    \/ BackdropClick

\* A touch gesture on the gallery's image area.
Gesture ==
    \/ \E x \in TouchXs : TouchStart(x)
    \/ \E x \in TouchXs : TouchMove(x)
    \/ TouchEnd

\* The clicks that open the gallery.
Opens ==
    \/ HeroClick
    \/ \E section \in Sections : \E k \in 1..Len(SectionCards(section)) :
          CardClick(section, k)

\* What the host does on its own: timers, load outcomes, frames.
Async ==
    \/ TitleTimerFires
    \/ LoadSucceeds
    \/ LoadFails
    \/ Frame

\* The carousel's rotation.
Rotation ==
    \/ IntervalTick
    \/ TransitionTimerFires

\* The same inputs, arriving between renders and not during one.
IdleControls ==
    \/ RenderIdle /\ CloseButtonClick
    \/ RenderIdle /\ PrevButtonClick
    \/ RenderIdle /\ NextButtonClick
    \/ RenderIdle /\ \E key \in Keys : KeyDown(key)
    \/ RenderIdle /\ BackdropClick

IdleGesture ==
    \/ RenderIdle /\ \E x \in TouchXs : TouchStart(x)
    \/ RenderIdle /\ \E x \in TouchXs : TouchMove(x)
    \/ RenderIdle /\ TouchEnd

IdleOpens ==
    \/ RenderIdle /\ HeroClick
    \/ RenderIdle /\ \E section \in Sections : \E k \in 1..Len(SectionCards(section)) :
          CardClick(section, k)

\* Every event, in every order.
Next ==
    \/ Controls
    \/ Gesture
    \/ Opens
    \/ Async
    \/ Rotation
    \/ \E y \in 0..MaxScrollY : Scroll(y)

Spec == Init /\ [][Next]_vars

\* The gallery's controls and opening clicks in every order with its timers,
\* loads and frames, the hero carousel at rest: renders overlap.
NextRender ==
    \/ Controls
    \/ Opens
    \/ Async

\* Every input of the gallery, the carousel at rest; the user acts between
\* renders, not during one.
NextGallery ==
    \/ IdleControls
    \/ IdleGesture
    \/ IdleOpens
    \/ Async

\* The gallery's controls and opening clicks while the carousel rotates; the
\* user acts between renders, not during one.
NextHero ==
    \/ IdleControls
    \/ IdleOpens
    \/ Async
    \/ Rotation

\* Opening and closing the gallery while the page is scrolled; the user acts
\* between renders, not during one.
NextScroll ==
    \/ IdleControls
    \/ IdleOpens
    \/ Async
    \/ \E y \in 0..MaxScrollY : Scroll(y)

\* Clicks on the elements of the gallery viewer and the clicks that open it,
\* between renders.
NextClick ==
    \/ RenderIdle /\ \E target \in ClickTargets : ClickOn(target)
    \/ IdleOpens
    \/ Async

SpecClick == Start("click") /\ [][NextClick]_vars

SpecPending == Start("pending") /\ [][NextRender]_vars
SpecClosed == Start("closed") /\ [][NextRender]_vars
SpecConverge == Start("converge") /\ [][NextRender]_vars
\* The renders with the host's loads, timers and frames never withheld: a
\* pending load eventually succeeds or fails, a pending timer or frame
\* eventually runs.
SpecSettle ==
    /\ Start("promise") /\ [][NextRender]_vars
    /\ WF_vars(LoadSucceeds \/ LoadFails)
    /\ WF_vars(TitleTimerFires)
    /\ WF_vars(Frame)
SpecRender == Start("none") /\ [][NextRender]_vars
SpecLoad == Start("load") /\ [][NextRender]_vars
SpecGallery == Start("none") /\ [][NextGallery]_vars
SpecOps == Start("op") /\ [][NextGallery]_vars
SpecTouch == Start("touch") /\ [][NextGallery]_vars
SpecHero == Start("none") /\ [][NextHero]_vars
SpecOpen == Start("op") /\ [][NextHero]_vars
SpecCycle == Start("cycle") /\ [][NextHero]_vars
SpecPair == Start("pair") /\ [][NextHero]_vars
SpecScroll == Start("scroll") /\ [][NextScroll]_vars
\* The hero carousel on its own: its timers and frames, touch gestures on the
\* container and the pointer entering and leaving it, in every order.
NextCarousel ==
    \/ IntervalTick
    \/ TransitionTimerFires
    \/ Frame
    \/ \E x \in TouchXs : handleTouchStart(x)
    \/ \E x \in TouchXs : handleTouchMove(x)
    \/ handleTouchEnd
    \/ MouseEnter
    \/ MouseLeave

SpecSwipe == StartCarousel("gesture") /\ [][NextCarousel]_vars
SpecCarousel == StartCarousel("step") /\ [][NextCarousel]_vars

\* One millisecond passes on the host's clock; no timer and no frame is
\* overdue.
Elapse ==
    /\ hist.now < MaxClock
    /\ hist.now < hist.tickAt
    /\ hist.frameBy = -1 \/ hist.now < hist.frameBy
    /\ hist.timerAt = -1 \/ hist.now < hist.timerAt
    /\ hist' = [hist EXCEPT !.now = @ + 1]
    /\ UNCHANGED <<galleryVars, renderVars, pageVars, rafCallbacks, carouselVars,
                   hostVars, moduleVars, probe>>

\* The carousel left alone (no touch, no hover), in host time: the interval
\* timer fires every 7000 ms, the 600 ms timer 600 ms after the frame that
\* set it, a requested frame within FrameMs.
NextClock ==
    \/ Elapse
    \/ hist.now = hist.tickAt /\ IntervalTick
    \/ Frame
    \/ hist.now = hist.timerAt /\ TransitionTimerFires

SpecClock == Start("clock") /\ [][NextClock]_vars

\* Opening the gallery from a content card and closing it again, between
\* renders.
NextResolve ==
    \/ RenderIdle /\ \E section \in Sections : \E k \in 1..Len(SectionCards(section)) :
          CardClick(section, k)
    \/ RenderIdle /\ CloseButtonClick
    \/ Async

SpecResolve == StartResolve("op") /\ [][NextResolve]_vars

\* The sequences of one to MaxEntries entries about different sections.
EntryBatches ==
    {es \in UNION {[1..m -> ObserverEntries] : m \in 1..MaxEntries} :
        \A i, j \in 1..Len(es) : i # j => es[i].id # es[j].id}

\* The scroll memory: nav link clicks and observer notifications.
NextTrack ==
    \/ \E href \in NavHrefs : NavLinkClick(href)
    \/ \E entries \in EntryBatches : SectionObserved(entries)

\* The settings and the scroll memory.
NextSettings ==
    \/ \E theme \in Themes : ThemeClick(theme)
    \/ \E lang \in Langs : LangClick(lang)
    \/ \E href \in NavHrefs : NavLinkClick(href)
    \/ \E entry \in ObserverEntries : SectionObserved(<<entry>>)

\* The page's startup: the two load events, the hero images, the timers.
NextStartup ==
    \/ TimePasses
    \/ DOMContentLoaded
    \/ HeroImageSettles
    \/ WindowLoad
    \/ \E i \in 1..Len(timers) :
          \/ FallbackTimer(i)
          \/ HideLoaderTimer(i)
          \/ PageAnimationsTimer(i)
          \/ RemoveLoaderTimer(i)
          \/ AfterAnimationTimer(i)
          \/ RestoreTimer(i)

SpecStartup == StartStartup("dom") /\ [][NextStartup]_vars

SpecTrack == Start("track") /\ [][NextTrack]_vars
SpecSettings == StartSettings("setting") /\ [][NextSettings]_vars

\* The cleanup registry: registrations and pagehide signals in every order.
NextCleanup ==
    \/ \E fn \in CleanupCallbacks : registerCleanup(fn)
    \/ PageHide

SpecCleanup == Start("cleanup") /\ [][NextCleanup]_vars
SpecFail == Start("fail") /\ [][NextRender]_vars
SpecArea == Start("area") /\ [][NextRender]_vars

\* ----------------------------------------------------------------- claims

\* C1: after show() at a valid startIndex of a list of length n >= 1, each
\* next() moves the index from i to (i+1) mod n, and after n calls of next()
\* (the gallery staying Open) currentIndex is startIndex again.
C1_NextCycles ==
    [][ /\ (hist.on /\ hist'.on /\ hist'.k = hist.k + 1)
            => currentIndex' = (currentIndex + 1) % Len(images)
        /\ (hist'.on /\ hist'.k = Len(images'))
            => currentIndex' = hist'.start ]_vars

\* A list of three images opened at its last index and cycled once.
C1_Witness ==
    /\ hist.on /\ isOpen
    /\ Len(images) = 3 /\ hist.start = 2 /\ hist.k = 3

\* C2: prev() immediately followed by next(), or next() immediately followed
\* by prev(), leaves currentIndex equal to its value before the pair.
C2_PairRestores == hist.stage = 2 => currentIndex = hist.from

\* C3: while the gallery is Closed, its buttons, keys, backdrop and touch
\* handlers change neither currentIndex, images, isOpen nor the scroll and body
\* state, request no frame and start no render.
ClosedInputs == {"closeButton", "prevButton", "nextButton", "backdrop",
                 "ArrowLeft", "ArrowRight", "Escape", "Enter",
                 "touchstart", "touchmove", "touchend"}
C3_ClosedNoOp ==
    [][ (~isOpen /\ hist'.op \in ClosedInputs)
            => UNCHANGED <<coreVars, touchVars, pageVars, rafCallbacks, renderVars>> ]_vars

\* The right-arrow key pressed on a gallery that was opened and closed again,
\* its restore frame already run.
C3_Witness ==
    /\ ~isOpen /\ images # <<>> /\ rafCallbacks = {}
    /\ hist.op = "ArrowRight"

\* C4: whenever the gallery is Open, 0 <= currentIndex < images.length.
C4_IndexValid == isOpen => currentIndex \in 0..(Len(images) - 1)

\* The step is the touchend of a gesture during which the gallery stayed Open.
SteadyTouchEnd == hist.phase = "down" /\ hist'.phase = "ended" /\ hist'.steady

\* C5: a gesture on the Open gallery that ends with a displacement of at most
\* 15% of the viewport width leaves currentIndex unchanged and starts no
\* render; a tap (no touchmove) at any position is such a gesture.
C5_SmallDragNoNav ==
    [][ (SteadyTouchEnd /\ ~OverThreshold(hist'.dx))
            => UNCHANGED <<currentIndex, renderVars>> ]_vars

\* The index one step from i in the direction of a drag by dx, in a list of n.
StepFrom(i, dx, n) == IF dx > 0 THEN JsMod(i - 1 + n, n) ELSE JsMod(i + 1, n)

\* C6 as claimed: a gesture on the Open gallery that ends with a displacement
\* of more than 15% of the viewport width moves currentIndex one step in the
\* drag's direction, and the index after the release differs from the index
\* before it, for every list length n >= 1.
C6_SwipeChangesIndex ==
    [][ (SteadyTouchEnd /\ OverThreshold(hist'.dx))
            => /\ currentIndex' = StepFrom(currentIndex, hist'.dx, Len(images))
               /\ currentIndex' # currentIndex ]_vars

\* C6 as amended: the index moves one step modulo n in the drag's direction
\* (rightward (i-1+n) mod n, leftward (i+1) mod n) and a render of the new
\* index is started; the index differs from the one before when n >= 2 and
\* stays 0 when n = 1.
C6_SwipeSteps ==
    [][ (SteadyTouchEnd /\ OverThreshold(hist'.dx))
            => /\ currentIndex' = StepFrom(currentIndex, hist'.dx, Len(images))
               /\ titleTimers' = Append(titleTimers, At(images, currentIndex').title)
               /\ imgSrc' = At(images, currentIndex').src
               /\ imgTransform' = (IF hist'.dx > 0 THEN FromLeft ELSE FromRight)
               /\ loadPending'
               /\ (Len(images) >= 2 /\ currentIndex \in 0..(Len(images) - 1))
                     => currentIndex' # currentIndex
               /\ Len(images) = 1 => currentIndex' = 0 ]_vars

\* A rightward swipe released on the first of three images: the last is shown.
C6_Witness ==
    /\ hist.phase = "ended" /\ hist.steady
    /\ OverThreshold(hist.dx) /\ hist.dx > 0
    /\ Len(images) = 3 /\ hist.pre = 0 /\ currentIndex = 2

\* C7: whenever the gallery is Closed, isDragging is false.
C7_ClosedNotDragging == ~isOpen => ~isDragging

\* C8: when the restore step of close() runs, scroll suppression is released
\* and the page is scrolled to the offset it had when scrolling was
\* suppressed.
C8_RestoresOffset ==
    [][ (RestoreScroll \in rafCallbacks /\ rafCallbacks' = {})
            => (~bodyFixed' /\ winScrollY' = hist.offset) ]_vars

\* C9: right after show(list or section, startIndex) the gallery is Open at
\* startIndex with the resolved list, scrolling is suppressed, and one render
\* of images[startIndex] without slide direction has been started.
C9_ShowStartsRender ==
    [][ hist'.call = "show"
            => /\ isOpen' /\ currentIndex' = hist'.arg
               /\ images' = (IF hist'.op = "heroClick" THEN heroImages
                             ELSE IF hist'.op = "card:art" THEN ResolveSection("art")
                             ELSE ResolveSection("inventions"))
               /\ bodyFixed'
               /\ titleTimers' = Append(titleTimers, At(images', hist'.arg).title)
               /\ imgSrc' = At(images', hist'.arg).src
               /\ imgTransform' = Centered
               /\ loadPending' ]_vars

\* C10: from the failure of a render's load until the next render begins, the
\* title shows the error label.
C10_ErrorLabelStays == hist.failed => titleText = ErrorLabel

\* C11: a failed load leaves currentIndex as it is and is handled inside
\* updateImage(); from the failure until the next user input the index does
\* not change and no load or render is started.
C11_FailureStaysPut ==
    [][ hist'.quiet
            => /\ currentIndex' = hist'.idx
               /\ ~unhandled'
               /\ ~loadPending'
               /\ imgSrc' = imgSrc
               /\ Len(titleTimers') <= Len(titleTimers) ]_vars

\* C11 witness: a load has failed at index 1 and a timer of the host has run
\* since, with no user input.
C11_Witness ==
    /\ probe = "fail" /\ hist.quiet /\ hist.idx = 1 /\ titleTimers = <<>>
    /\ titleText # ErrorLabel

\* C12: after a render's load has failed (and before another render starts)
\* the image element shows the source, opacity and transform it had before
\* the failed render started.
C12_ImageAreaKept ==
    hist.failed
        => /\ imgSrc = hist.src
           /\ imgOpacity = hist.opacity
           /\ imgTransform = hist.transform

\* C13: the first pagehide invokes every callback registered before it and
\* leaves the registry empty; a later pagehide invokes nothing; so each
\* callback registered before the first signal has run exactly once however
\* many signals there were.
C13_CleanupOnce ==
    [][ pagehides' > pagehides
            => /\ pagehides = 0
                    => /\ cleanupFunctions' = {}
                       /\ \A fn \in CleanupCallbacks :
                             invoked'[fn] = (IF fn \in hist.before THEN 1 ELSE 0)
               /\ pagehides >= 1 => invoked' = invoked ]_vars

\* C13 witness: two callbacks were registered, three pagehide signals have
\* been dispatched, and a callback was registered again after the first.
C13_Witness ==
    /\ probe = "cleanup" /\ pagehides = 3
    /\ hist.before = {"scroll", "resize"}
    /\ "scroll" \in cleanupFunctions

\* Carousel transitions in flight: requested for the next frame, or waiting
\* for their 600 ms timer.
InFlight ==
    transitionTimers + Cardinality({d \in rafCallbacks : d.cb = "activate"})

\* The step is a step request to the carousel: a timer tick, or a touchmove
\* of an active gesture beyond the threshold.
StepRequest ==
    \/ hist'.op = "tick"
    \/ hist'.op = "heroTouchmove" /\ carouselDragging /\ OverThreshold(hist'.dx)

\* C14: a step request arriving while isTransitioning changes neither the
\* carousel index nor an active marker nor the stacking order; at most one
\* transition is in flight, and one starts only when none is in flight and
\* the flag is clear.
C14_OneTransition ==
    [][ /\ StepRequest /\ isTransitioning
            => UNCHANGED <<carouselIndex, heroActive, heroZ, isTransitioning>>
        /\ InFlight' <= 1
        /\ carouselIndex' # carouselIndex => ~isTransitioning /\ InFlight = 0 ]_vars

\* C14 witness: a timer tick arrived while a transition was waiting for its
\* 600 ms timer.
C14_Witness ==
    /\ probe = "step" /\ hist.op = "tick"
    /\ isTransitioning /\ transitionTimers = 1 /\ rafCallbacks = {}

\* C15: while a gesture on the carousel is active, a timer tick does not
\* change the carousel index.
C15_NoTickWhileDragging ==
    [][ hist'.op = "tick" /\ carouselDragging => carouselIndex' = carouselIndex ]_vars

\* C16: at most one rotation interval timer is live.
C16_OneInterval == liveIntervals <= 1

\* C16 witness: restartInterval() ran (on mouseleave or touchend) while an
\* interval timer was live, and one timer is live after it.
C16_Witness ==
    /\ probe = "step" /\ hist.op \in {"mouseleave", "heroTouchend"}
    /\ hist.live = 1 /\ liveIntervals = 1

\* C17: while the pointer is over the carousel region no timer tick changes
\* the carousel index, and after mouseleave an interval timer is live.
C17_HoverPauses ==
    [][ /\ hist'.op = "tick" /\ hovering => carouselIndex' = carouselIndex
        /\ hist'.op = "mouseleave" /\ CarouselInstalled => liveIntervals' = 1 ]_vars

\* C18 as stated: in an active gesture, a touchmove displaced beyond the
\* threshold moves the carousel index one step in the drag direction.
C18_SwipeAlwaysSteps ==
    [][ hist'.op = "heroTouchmove" /\ carouselDragging /\ OverThreshold(hist'.dx)
            => carouselIndex' = StepFrom(carouselIndex, hist'.dx, heroLength) ]_vars

\* C18 amended: such a touchmove ends the gesture; it moves the index one
\* step in the drag direction when no transition is in flight, and leaves
\* the index alone when one is.
C18_SwipeSteps ==
    [][ hist'.op = "heroTouchmove" /\ carouselDragging /\ OverThreshold(hist'.dx)
            => /\ ~carouselDragging'
               /\ carouselIndex' = (IF isTransitioning THEN carouselIndex
                                     ELSE StepFrom(carouselIndex, hist'.dx, heroLength)) ]_vars

\* C18 witness: a rightward drag beyond the threshold has moved the carousel
\* of three images from index 0 to index 2.
C18_Witness ==
    /\ probe = "step" /\ hist.op = "heroTouchmove" /\ hist.dx > 0
    /\ OverThreshold(hist.dx) /\ heroLength = 3 /\ carouselIndex = 2
    /\ Activate(2) \in rafCallbacks /\ heroTouch /\ ~carouselDragging

\* C20: with fewer than two hero images no interval timer is ever live, no
\* touch or hover event reaches a carousel handler (no drag state, no
\* transition, no frame request), and index, active markers and z-indices
\* never change.
C20_StaticBelowTwo ==
    [][ heroLength <= 1
            => /\ liveIntervals' = 0 /\ ~intervalIdLive'
               /\ ~carouselDragging' /\ startX' = 0
               /\ ~isTransitioning' /\ transitionTimers' = 0 /\ rafCallbacks' = {}
               /\ UNCHANGED <<carouselIndex, heroActive, heroZ>> ]_vars

\* C20 witness: one hero image carrying 'active'; the pointer is over the
\* container and a finger has been dragged across it beyond the threshold.
C20_Witness ==
    /\ probe = "step" /\ heroLength = 1 /\ heroActive = {0} /\ hovering
    /\ hist.op = "heroTouchmove" /\ OverThreshold(hist.dx)

\* C19: left alone, the carousel advances one step at each tick of the
\* 7-second timer, none dropped by the transition guard: after the ticks at
\* 7 s, 14 s and 21 s the index of three hero images is 0 again.
C19_ThreeTicks ==
    /\ carouselIndex = JsMod(hist.ticks, heroLength)
    /\ \A k \in 1..3 : hist.now > k * Period => hist.ticks >= k
    /\ hist.ticks = 3 /\ heroLength = 3 => carouselIndex = 0

\* C19 witness: at 21 s the third tick has fired and three hero images are
\* back at index 0.
C19_Witness ==
    /\ probe = "clock" /\ hist.now = 3 * Period /\ hist.ticks = 3
    /\ heroLength = 3 /\ carouselIndex = 0 /\ isTransitioning

\* The number of records the claim gives a card: the length of its
\* multi-image entry when the card expands, else one.
CardCount(card, expands) ==
    IF expands /\ Has(multiImageMap, card.title)
    THEN Len(multiImageMap[card.title]) ELSE 1

RECURSIVE Offset(_, _, _)
Offset(cards, j, expands) ==
    IF j = 0 THEN 0
    ELSE Offset(cards, j - 1, expands) + CardCount(cards[j], expands)

\* list is the concatenation, in card order, of one block per card: the
\* card's records (they carry its description), with pairwise distinct
\* titles.
Expansion(list, cards, expands) ==
    /\ Len(list) = Offset(cards, Len(cards), expands)
    /\ \A j \in 1..Len(cards) :
          LET lo == Offset(cards, j - 1, expands)
              k  == CardCount(cards[j], expands)
          IN \A a \in 1..k :
                /\ list[lo + a].desc = cards[j].desc
                /\ \A b \in 1..k : a # b => list[lo + a].title # list[lo + b].title

\* The section of the card click the history records.
ClickedSection == IF hist'.op = "card:art" THEN "art" ELSE "inventions"

\* C21 as claimed: the list show() resolves for a section has, per card in
\* order, k records with distinct titles when the card's title is a key of
\* the multi-image map with k entries, and one record otherwise.
C21_ExpandsEveryMappedCard ==
    [][ hist'.call = "show"
            => Expansion(images', SectionCards(ClickedSection), TRUE) ]_vars

\* C21 amended: that holds for the cards of the inventions section; in any
\* other section every card yields one record, mapped title or not.
C21_ExpandsInventions ==
    [][ hist'.call = "show"
            => Expansion(images', SectionCards(ClickedSection),
                         ClickedSection = "inventions") ]_vars

\* C21 witness: the gallery was opened on an inventions section of a
\* single-image card followed by a multi-image card: three records.
C21_Witness ==
    /\ probe = "op" /\ hist.op = "card:inventions" /\ isOpen
    /\ Len(pageCards["inventions"]) = 2
    /\ pageCards["inventions"][1].title = "Parachute Design"
    /\ pageCards["inventions"][2].title = "Armored Tank"
    /\ Len(images) = 3 /\ images[3].title = "Armored Tank - Blueprint"

C24_StorageFailureSilent ==
    [][ /\ ~unhandled'
        /\ themeAttr' = IF hist'.op = "themeClick" THEN hist'.value ELSE themeAttr
        /\ currentLang' = IF hist'.op = "langClick" THEN hist'.value ELSE currentLang
        /\ storageThrows => stored' = stored ]_vars

\* C24 witness: storage throws; the theme was switched to dark and then the
\* language to German, and nothing was persisted.
C24_Witness ==
    /\ probe = "setting" /\ storageThrows /\ hist.op = "langClick"
    /\ themeAttr = "dark" /\ currentLang = "de"
    /\ stored["theme"] = NoItem /\ stored["language"] = NoItem

\* C23: whenever the load handler scrolls to the persisted section, the
\* startup page animations have not begun yet; it scrolls only to a persisted
\* id that names an element, and no step leaves an error unhandled.
C23_RestoreBeforeAnimations ==
    [][ /\ ~unhandled'
        /\ scrolledTo' # scrolledTo =>
              /\ animationsStarted = 0
              /\ ~storageThrows
              /\ scrolledTo' = stored["lastSection"]
              /\ ElementExists(scrolledTo') ]_vars

\* The latest time after DOMContentLoaded at which startPageAnimations()
\* runs when the fallback timer starts the sequence.
StartupCeiling == FallbackDelay + loaderFadeOut

\* C25 as stated: once more than StartupCeiling ms have passed since
\* DOMContentLoaded, the loader is hidden and the page animations have been
\* started, whether or not any hero image has loaded or failed.
C25_AlwaysStarts ==
    (hist.at >= 0 /\ now > hist.at + StartupCeiling)
        => (loaderHidden /\ animationsStarted >= 1)

\* C25 amended: the same on a page that has the loader element.
C25_StartsWithLoader ==
    (hasLoader /\ hist.at >= 0 /\ now > hist.at + StartupCeiling)
        => (loaderHidden /\ animationsStarted >= 1)

\* C25 witness: the hero image never loaded nor failed, and the page
\* animations started StartupCeiling ms after DOMContentLoaded.
C25_Witness ==
    /\ probe = "dom" /\ hasLoader /\ hist.at >= 0
    /\ heroLoading > 0 /\ loadedImages = 0
    /\ animationsStarted = 1 /\ now = hist.at + StartupCeiling

\* C26: while the gallery is open, ArrowLeft moves the index one step back
\* (with wraparound) and ArrowRight one step forward, each starting one
\* render and leaving the gallery open; Escape closes it and keeps the
\* index; any other key while open, and any key while closed, changes
\* nothing of the gallery, its image and title, the page or the frame queue.
C26_KeysMapToMethods ==
    [][ hist'.op \in Keys =>
          IF isOpen /\ hist'.op = "ArrowLeft"
          THEN /\ currentIndex' = JsMod(currentIndex - 1 + Len(images), Len(images))
               /\ isOpen' /\ images' = images
               /\ Len(titleTimers') = Len(titleTimers) + 1
               /\ imgSrc' = At(images, currentIndex').src
          ELSE IF isOpen /\ hist'.op = "ArrowRight"
          THEN /\ currentIndex' = JsMod(currentIndex + 1, Len(images))
               /\ isOpen' /\ images' = images
               /\ Len(titleTimers') = Len(titleTimers) + 1
               /\ imgSrc' = At(images, currentIndex').src
          ELSE IF isOpen /\ hist'.op = "Escape"
          THEN /\ ~isOpen' /\ ~elementActive'
               /\ UNCHANGED <<images, currentIndex, renderVars>>
          ELSE UNCHANGED <<galleryVars, renderVars, pageVars, rafCallbacks>> ]_vars

\* C26 witness: the gallery is open on the last of three images after
\* ArrowLeft was pressed on the first.
C26_Witness ==
    /\ probe = "op" /\ hist.op = "ArrowLeft" /\ hist.call = "prev"
    /\ isOpen /\ Len(images) = 3 /\ currentIndex = 2

\* C27: a click on the backdrop itself closes an open gallery; a click on
\* the image, its container or the prev/next buttons does not reach the
\* backdrop's listener and leaves the gallery open or closed as it was; a
\* prev/next click on an open gallery moves the index exactly one step and
\* starts one render.
C27_BackdropCloses ==
    [][ hist'.target # "none" =>
          /\ (hist'.target = "viewer" /\ isOpen) => (~isOpen' /\ ~elementActive')
          /\ hist'.target \in {"image", "container", "prev", "next"} =>
                (~hist'.reached /\ isOpen' = isOpen /\ elementActive' = elementActive)
          /\ (hist'.target = "prev" /\ isOpen) =>
                /\ currentIndex' = JsMod(currentIndex - 1 + Len(images), Len(images))
                /\ Len(titleTimers') = Len(titleTimers) + 1
          /\ (hist'.target = "next" /\ isOpen) =>
                /\ currentIndex' = JsMod(currentIndex + 1, Len(images))
                /\ Len(titleTimers') = Len(titleTimers) + 1 ]_vars

\* C27 witness: the open gallery was clicked on its image and is still open.
C27_Witness ==
    /\ probe = "click" /\ hist.target = "image" /\ ~hist.reached
    /\ isOpen /\ elementActive /\ currentIndex = 1

\* C28: a next() or prev() called on an open gallery while an image load is
\* pending moves the index one step (with wraparound) and starts the render
\* of the new index at once: title timer set, image reset to its initial
\* state, the new source assigned and its load pending.
C28_NoLockWhilePending ==
    [][ (hist'.pending /\ hist'.open /\ hist'.call \in {"next", "prev"}) =>
          /\ currentIndex' = IF hist'.call = "next"
                              THEN JsMod(currentIndex + 1, Len(images))
                              ELSE JsMod(currentIndex - 1 + Len(images), Len(images))
          /\ Len(titleTimers') = Len(titleTimers) + 1
          /\ titleTimers'[Len(titleTimers')] = At(images, currentIndex').title
          /\ imgSrc' = At(images, currentIndex').src
          /\ imgOpacity' = "0" /\ imgTransition' = "none"
          /\ loadPending' ]_vars

\* C28 witness: next() was called while the load of the first image was
\* pending; the gallery shows the second image's source, load pending.
C28_Witness ==
    /\ probe = "pending" /\ hist.pending /\ hist.open /\ hist.call = "next"
    /\ isOpen /\ currentIndex = 1 /\ loadPending /\ Len(titleTimers) = 2

C30_PreTransitionUntilFrame ==
    (SlideIn \in rafCallbacks /\ ~loadPending) =>
        /\ imgOpacity = "0"
        /\ imgTransition = "none"
        /\ imgTransform \in {Centered, FromLeft, FromRight}

\* C31: in an installed carousel the current hero image (the incoming one
\* from the start of a step on) has a strictly greater z-index than every
\* other hero image.
C31_IncomingOnTop ==
    CarouselInstalled =>
        \A i \in 0..(heroLength - 1) :
            i # carouselIndex => heroZ[carouselIndex] > heroZ[i]

\* C37: in an installed carousel at most one hero image is active, and
\* while no transition is in flight exactly the image at the current index
\* is active.
C37_OneActive ==
    CarouselInstalled =>
        /\ Cardinality(heroActive) <= 1
        /\ ~isTransitioning => heroActive = {carouselIndex}

\* C37 witness: two steps back and forth have finished; the third of three
\* images is current and the only active one.
C37_Witness ==
    /\ probe = "step" /\ heroLength = 3 /\ ~isTransitioning
    /\ carouselIndex = 2 /\ heroActive = {2} /\ transitionTimers = 0
    /\ rafCallbacks = {}

\* C38: the touchmove events of one gesture on the carousel change the
\* index at most once, and by a single step.
C38_OneStepPerGesture ==
    hist.steps <= 1 /\ hist.single

\* C38 witness: a gesture has stepped the carousel, the transition it
\* started is over, and the finger, still down, has travelled further.
C38_Witness ==
    /\ probe = "gesture" /\ hist.down /\ hist.steps = 1
    /\ heroTouch /\ ~carouselDragging /\ ~isTransitioning /\ transitionTimers = 0

\* C32: whenever the gallery is open, background scrolling is suppressed
\* (the body is fixed), also when show() ran between close() and the frame
\* callback close() requested.
C32_OpenSuppressesScroll ==
    isOpen => bodyFixed

C34_EveryCallSettles ==
    (hist.live \/ hist.orphaned) ~> ~(hist.live \/ hist.orphaned)

\* C35: once a render whose load succeeded has run to its end (its load was
\* the last to finish; no title timer, load or slide-in frame is pending),
\* the title shows neither the error label nor the error colour, whatever
\* failed before.
C35_ErrorCleared ==
    (images # <<>> /\ ~hist.failed /\ titleTimers = <<>> /\ ~loadPending
         /\ SlideIn \notin rafCallbacks) =>
        (titleText # ErrorLabel /\ titleColor = "")

\* C36: startAnimationsSequence() runs at most once per page load, and so
\* do the page animations it starts.
C36_SequenceOnce ==
    sequenceRuns <= 1 /\ animationsStarted <= 1

\* C39: a click on the k-th card of a section opens the gallery with
\* startIndex equal to the number of records the resolver produces for the
\* k-1 cards before it, and the image at that index is the first record the
\* resolver derives from the clicked card.
C39_OpensOnClickedCard ==
    [][ \A section \in Sections : \A k \in 1..Len(SectionCards(section)) :
            CardClick(section, k) =>
                LET cards == SectionCards(section)
                    before == Len(FlatMapCards(section, cards, k - 1))
                IN /\ isOpen'
                   /\ currentIndex' = before
                   /\ images' = FlatMapCards(section, cards, Len(cards))
                   /\ At(images', currentIndex') = CardImages(section, cards[k])[1]
                   /\ imgSrc' = CardImages(section, cards[k])[1].src ]_vars

\* C39 witness: the second card of an inventions section was clicked, after
\* a two-image card: the gallery is open at index 2 on that card's image.
C39_Witness ==
    /\ probe = "op" /\ hist.op = "card:inventions" /\ hist.arg = 2 /\ isOpen
    /\ Len(pageCards["inventions"]) = 2
    /\ pageCards["inventions"][1].title = "Aerial Screw"
    /\ pageCards["inventions"][2].title = "Parachute Design"
    /\ currentIndex = 2 /\ Len(images) = 3
    /\ images[3].title = "Parachute Design"

====
